---- MODULE Spec2Model ----
(***************************************************************************)
(* A model of the AI travel planner: the itinerary generation engine      *)
(* src/src/itinenary_generator.py (ItineraryGenerator), and the pages of   *)
(* src/main.py with the services they call (UserManager, BookingServices,  *)
(* PaymentGateway) on their BigQuery tables.                               *)
(*                                                                         *)
(* Python values are modelled as follows.                                  *)
(*   - a str built by an f-string is the tuple of its parts;               *)
(*   - a datetime is a record [year, month, day, hour, minute];            *)
(*   - a dict with fixed keys is a record; a dict that is filled in a loop *)
(*     is the sequence of its (key, value) pairs in insertion order;       *)
(*   - every value generate_itineraries can return is tagged with its      *)
(*     Python type: [kind |-> "list" | "dict" | "number" | "None", val];   *)
(*   - a call of random.* is a draw: the caller of an operator passes the  *)
(*     values drawn, and the actions choose them from sample sets.         *)
(***************************************************************************)
EXTENDS Integers, Sequences, FiniteSets, TLC

(***************************************************************************)
(* Bounds of the model.                                                    *)
(***************************************************************************)
MaxDays == 2
MaxItineraries == 2
MaxTextLen == 3

\* The longest list of activity booking results and the most rows of the
\* payments table.
MaxActivityBookings == 1

MaxPayments == 1

(***************************************************************************)
(* Python helpers.                                                         *)
(***************************************************************************)
None == [kind |-> "None", val |-> 0]

PyList(items) == [kind |-> "list", val |-> items]

PyDict(val) == [kind |-> "dict", val |-> val]

PyNumber(n) == [kind |-> "number", val |-> n]

\* The empty dict / the empty pair list.
EmptyDict == << >>

\* d[key] = value on a dict kept as a sequence of (key, value) pairs: an
\* existing key keeps its position, a new key goes last.
DictSet(d, key, value) ==
    IF \E i \in 1..Len(d) : d[i].key = key
    THEN [i \in 1..Len(d) |->
            IF d[i].key = key THEN [key |-> key, value |-> value] ELSE d[i]]
    ELSE Append(d, [key |-> key, value |-> value])

\* d.get(key, default)
DictGet(d, key, default) ==
    IF \E i \in 1..Len(d) : d[i].key = key
    THEN d[CHOOSE i \in 1..Len(d) : d[i].key = key].value
    ELSE default

\* list(d.keys())
DictKeys(d) == [i \in 1..Len(d) |-> d[i].key]

\* `marker in destination` on a destination kept as the sequence of its words.
StrContains(destination, marker) ==
    \E i \in 1..Len(destination) : destination[i] = marker

(***************************************************************************)
(* datetime: timedelta(days=1) and strftime("%Y-%m-%d").                   *)
(***************************************************************************)
IsLeap(y) == (y % 4 = 0 /\ y % 100 # 0) \/ y % 400 = 0

DaysInMonth(y, m) ==
    IF m = 2 THEN (IF IsLeap(y) THEN 29 ELSE 28)
    ELSE IF m \in {4, 6, 9, 11} THEN 30 ELSE 31

\* date + timedelta(days=1): the time of day is kept.
AddDay(dt) ==
    IF dt.day < DaysInMonth(dt.year, dt.month)
    THEN [dt EXCEPT !.day = @ + 1]
    ELSE IF dt.month < 12
         THEN [dt EXCEPT !.month = @ + 1, !.day = 1]
         ELSE [dt EXCEPT !.year = @ + 1, !.month = 1, !.day = 1]

\* strftime("%Y-%m-%d"): the zero-padded date, the time of day dropped.
Strftime(dt) == <<dt.year, dt.month, dt.day>>

(***************************************************************************)
(* The weather / risk oracle.                                              *)
(***************************************************************************)
weather_conditions == <<"Sunny", "Partly Cloudy", "Cloudy", "Rainy", "Stormy">>

temperatures ==
    [c \in {"Sunny", "Partly Cloudy", "Cloudy", "Rainy", "Stormy"} |->
        CASE c = "Sunny" -> <<75, 95>>
          [] c = "Partly Cloudy" -> <<70, 85>>
          [] c = "Cloudy" -> <<65, 80>>
          [] c = "Rainy" -> <<60, 75>>
          [] c = "Stormy" -> <<55, 70>>]

get_weather_recommendations(condition) ==
    CASE condition = "Sunny" ->
           <<"Perfect day for outdoor activities",
             "Don't forget sunscreen and a hat",
             "Great day for beach or water activities">>
      [] condition = "Partly Cloudy" ->
           <<"Good day for outdoor activities",
             "Might want to bring a light jacket",
             "Comfortable conditions for sightseeing">>
      [] condition = "Cloudy" ->
           <<"Good day for outdoor activities without strong sun",
             "Might want to have indoor alternatives planned",
             "Comfortable temperatures for walking tours">>
      [] condition = "Rainy" ->
           <<"Plan indoor activities or bring rain gear",
             "Consider museums, galleries, or indoor markets",
             "Check if outdoor activities have rain dates">>
      [] condition = "Stormy" ->
           <<"Avoid outdoor activities if possible",
             "Consider rescheduling outdoor plans",
             "Have indoor backup plans ready">>
      [] OTHER -> <<"Check local weather advisories">>

\* What one pass of the forecast loop may draw: random.choice of a condition,
\* random.randint(lo, hi) for high and random.randint(lo - 15, hi - 10) for low.
IsWeatherDraw(w) ==
    /\ \E c \in 1..Len(weather_conditions) : w.condition = weather_conditions[c]
    /\ w.high \in temperatures[w.condition][1] .. temperatures[w.condition][2]
    /\ w.low \in (temperatures[w.condition][1] - 15) ..
                 (temperatures[w.condition][2] - 10)

\* A variant of ForecastLoop: current_date is not advanced, so every pass
\* writes the key of the start date.
RECURSIVE ForecastLoopSameDay(_, _, _, _, _)
ForecastLoopSameDay(i, num_days, current_date, forecast, draws) ==
    IF i > num_days THEN forecast
    ELSE ForecastLoopSameDay(i + 1, num_days, current_date,
            DictSet(forecast, Strftime(current_date),
                [condition |-> draws[i].condition,
                 high |-> draws[i].high,
                 low |-> draws[i].low,
                 recommendations |->
                     get_weather_recommendations(draws[i].condition)]),
            draws)

\* The loop of _get_weather_forecast from day i on; draws[i] is what pass i draws.
RECURSIVE ForecastLoop(_, _, _, _, _)
ForecastLoop(i, num_days, current_date, forecast, draws) ==
    IF i > num_days THEN forecast
    ELSE ForecastLoop(i + 1, num_days, AddDay(current_date),
            DictSet(forecast, Strftime(current_date),
                [condition |-> draws[i].condition,
                 high |-> draws[i].high,
                 low |-> draws[i].low,
                 recommendations |->
                     get_weather_recommendations(draws[i].condition)]),
            draws)

get_weather_forecast(destination, start_date, num_days, draws) ==
    ForecastLoop(1, num_days, start_date, EmptyDict, draws)

disasters ==
    <<"No significant natural disasters reported",
      "Minor earthquake activity reported in the region",
      "Tropical storm warning in effect",
      "Wildfire risk elevated due to dry conditions",
      "Flood watch in effect for low-lying areas">>

disaster_prone == <<"Japan", "Indonesia", "Philippines", "California", "Florida">>

\* A variant of check_natural_disasters: the alert that was drawn is added to
\* the baseline alert instead of replacing it.
check_natural_disasters_both(destination, start_date, roll, pick) ==
    LET has_disaster ==
            /\ \E p \in 1..Len(disaster_prone) :
                   StrContains(destination, disaster_prone[p])
            /\ roll
    IN  IF has_disaster THEN <<disasters[1], disasters[pick]>> ELSE <<disasters[1]>>

\* roll is the outcome of `random.random() > 0.7`; pick is the index
\* random.choice draws in disasters[1:] (2..5 here, sequences being 1-based).
check_natural_disasters(destination, start_date, roll, pick) ==
    LET has_disaster ==
            /\ \E p \in 1..Len(disaster_prone) :
                   StrContains(destination, disaster_prone[p])
            /\ roll
    IN  IF has_disaster THEN <<disasters[pick]>> ELSE <<disasters[1]>>

(***************************************************************************)
(* str(n) of an f-string, as the sequence of its characters.               *)
(***************************************************************************)
DigitChar(k) ==
    CASE k = 0 -> "0" [] k = 1 -> "1" [] k = 2 -> "2" [] k = 3 -> "3"
      [] k = 4 -> "4" [] k = 5 -> "5" [] k = 6 -> "6" [] k = 7 -> "7"
      [] k = 8 -> "8" [] k = 9 -> "9"

RECURSIVE Str(_)
Str(n) == IF n < 10 THEN <<DigitChar(n)>>
          ELSE Append(Str(n \div 10), DigitChar(n % 10))

\* str.lower() on the focus names.
Lower(s) ==
    CASE s = "Luxury" -> "luxury" [] s = "Budget" -> "budget"
      [] s = "Adventure" -> "adventure" [] s = "Cultural" -> "cultural"
      [] s = "Relaxation" -> "relaxation" [] s = "Food" -> "food"
      [] OTHER -> s

(***************************************************************************)
(* The fallback itinerary synthesizer.                                     *)
(***************************************************************************)
focuses == <<"Luxury", "Budget", "Adventure", "Cultural", "Relaxation", "Food">>

airlines == <<"Delta", "United", "American", "Southwest", "JetBlue">>

hotels == <<"Marriott", "Hilton", "Hyatt", "InterContinental", "Holiday Inn">>

activity_types == <<"Adventure", "Cultural", "Relaxation", "Food">>

activities ==
    [t \in {"Adventure", "Cultural", "Relaxation", "Food"} |->
        CASE t = "Adventure" ->
               <<"Zip Lining", "Hiking", "White Water Rafting", "Rock Climbing">>
          [] t = "Cultural" ->
               <<"Museum Tour", "Historical Site", "Local Market", "Traditional Show">>
          [] t = "Relaxation" ->
               <<"Spa Day", "Beach Time", "Yoga Session", "Meditation">>
          [] t = "Food" ->
               <<"Cooking Class", "Food Tour", "Wine Tasting", "Local Restaurant">>]

indoor_alternatives ==
    [n \in {"Zip Lining", "Hiking", "White Water Rafting", "Rock Climbing",
            "Beach Time", "Yoga Session", "Meditation"} |->
        CASE n = "Zip Lining" -> "Indoor rock climbing"
          [] n = "Hiking" -> "Museum visit"
          [] n = "White Water Rafting" -> "Indoor water park"
          [] n = "Rock Climbing" -> "Indoor rock climbing gym"
          [] n = "Beach Time" -> "Spa day"
          [] n = "Yoga Session" -> "Indoor yoga studio"
          [] n = "Meditation" -> "Wellness center visit"]

\* The keys of the itinerary dict built at lines 322-352.
ItineraryFields ==
    {"id", "title", "focus", "description", "total_cost",
     "weather_considerations", "safety_recommendations", "flight_options",
     "accommodation_options", "daily_itinerary", "unique_selling_point"}

\* " ".join(alerts), as the sequence of the joined parts.
RECURSIVE Join(_)
Join(alerts) ==
    IF Len(alerts) = 0 THEN << >>
    ELSE IF Len(alerts) = 1 THEN <<alerts[1]>>
    ELSE <<alerts[1], " ">> \o Join(Tail(alerts))

\* total_cost > budget * 0.9 (line 316). budget is an int and total_cost an
\* int, so the float comparison agrees with the exact one.
OverBudget(total_cost, budget) == 10 * total_cost > 9 * budget

\* A variant of ScaledPrice: round(price * scale), to the nearest integer,
\* where the code truncates.
ScaledPriceRounded(price, budget, total_cost, ulp) ==
    ((2 * price * 9 * budget) + (10 * total_cost)) \div (2 * 10 * total_cost)

\* int(price * scale) with scale = (budget * 0.9) / total_cost (lines 317-319).
\* The exact quotient is truncated; when the exact product is already an
\* integer n, the double arithmetic may land just below n and int() then
\* gives n - 1: ulp (0 or 1) is that outcome. A product of 0 (budget 0) is
\* exactly 0.0.
ScaledPrice(price, budget, total_cost, ulp) ==
    LET num == price * 9 * budget
        den == 10 * total_cost
    IN  IF num % den = 0 /\ num > 0 THEN (num \div den) - ulp ELSE num \div den

\* A variant of FitBudget: the total is not computed again after the scaling.
FitBudgetStaleTotal(num_days, budget, d) ==
    LET total_cost == d.flight_price + (d.hotel_price_per_night * num_days)
    IN  IF OverBudget(total_cost, budget)
        THEN [flight_price |->
                  ScaledPrice(d.flight_price, budget, total_cost, d.ulp_flight),
              hotel_price_per_night |->
                  ScaledPrice(d.hotel_price_per_night, budget, total_cost,
                              d.ulp_hotel),
              total_cost |-> total_cost]
        ELSE [flight_price |-> d.flight_price,
              hotel_price_per_night |-> d.hotel_price_per_night,
              total_cost |-> total_cost]

\* Lines 311-320: the prices and total of one itinerary, d being its draws.
FitBudget(num_days, budget, d) ==
    LET total_cost == d.flight_price + (d.hotel_price_per_night * num_days)
    IN  IF OverBudget(total_cost, budget)
        THEN LET fp == ScaledPrice(d.flight_price, budget, total_cost, d.ulp_flight)
                 hp == ScaledPrice(d.hotel_price_per_night, budget, total_cost,
                                   d.ulp_hotel)
             IN  [flight_price |-> fp, hotel_price_per_night |-> hp,
                  total_cost |-> fp + (hp * num_days)]
        ELSE [flight_price |-> d.flight_price,
              hotel_price_per_night |-> d.hotel_price_per_night,
              total_cost |-> total_cost]

\* f"Day {day}"
DayLabel(day) == <<"Day ">> \o Str(day)

\* f"{hour}:00"
ClockTime(hour) == Str(hour) \o <<":", "0", "0">>

\* A variant of MakeActivity: the alternative is attached on "Rainy" days only.
MakeActivityRainyOnly(destination, focus, weather, j, s) ==
    LET activity_type ==
            IF focus \in DOMAIN activities THEN focus ELSE s.activity_type
        activity_name == activities[activity_type][s.name]
        weather_alternative ==
            IF /\ activity_name \in DOMAIN indoor_alternatives
               /\ weather.condition \in {"Rainy"}
            THEN indoor_alternatives[activity_name]
            ELSE ""
    IN  [name |-> activity_name,
         description |-> <<"Enjoy a ", <<"lower", activity_name>>,
                          " experience in ", destination>>,
         start_time |-> ClockTime(9 + j * 4),
         end_time |-> ClockTime(12 + j * 4),
         location |-> <<destination, " City Center">>,
         cost |-> s.cost,
         source |-> "Fallback data",
         weather_alternative |-> weather_alternative]

\* Lines 362-379: activity j (0 or 1) of a day, s being its draws.
MakeActivity(destination, focus, weather, j, s) ==
    LET activity_type ==
            IF focus \in DOMAIN activities THEN focus ELSE s.activity_type
        activity_name == activities[activity_type][s.name]
        weather_alternative ==
            IF /\ activity_name \in DOMAIN indoor_alternatives
               /\ weather.condition \in {"Rainy", "Stormy"}
            THEN indoor_alternatives[activity_name]
            ELSE ""
    IN  [name |-> activity_name,
         description |-> <<"Enjoy a ", <<"lower", activity_name>>,
                          " experience in ", destination>>,
         start_time |-> ClockTime(9 + j * 4),
         end_time |-> ClockTime(12 + j * 4),
         location |-> <<destination, " City Center">>,
         cost |-> s.cost,
         source |-> "Fallback data",
         weather_alternative |-> weather_alternative]

\* Lines 356-382: the loop over the days, from `day` on.
RECURSIVE DayLoop(_, _, _, _, _, _, _, _)
DayLoop(day, num_days, current_date, daily, destination, focus, weather_forecast, slots) ==
    IF day > num_days THEN daily
    ELSE LET date_str == Strftime(current_date)
             weather == DictGet(weather_forecast, date_str,
                            [condition |-> "Sunny",
                             recommendations |->
                                 <<"Good weather for outdoor activities">>])
             day_activities ==
                 [k \in 1..2 |->
                     MakeActivity(destination, focus, weather, k - 1,
                                  slots[2 * (day - 1) + k])]
         IN  DayLoop(day + 1, num_days, AddDay(current_date),
                     DictSet(daily, DayLabel(day), day_activities),
                     destination, focus, weather_forecast, slots)

\* Lines 310-384: one pass of the loop over the itineraries, d being its draws.
MakeItinerary(i, destination, num_days, preferences, budget, start_date, weather_forecast, disaster_alerts, d) ==
    LET fit == FitBudget(num_days, budget, d)
    IN  [id |-> <<"uuid4", i>>,
         title |-> <<d.focus, destination, "Experience">>,
         focus |-> d.focus,
         description |-> <<"A ", Str(num_days), "-day ", Lower(d.focus),
                           " trip to ", destination, " focusing on ", preferences>>,
         total_cost |-> fit.total_cost,
         weather_considerations |->
             "Check local weather forecast and plan accordingly. Have indoor alternatives ready.",
         safety_recommendations |-> Join(disaster_alerts),
         flight_options |->
             << [airline |-> d.airline,
                 price |-> fit.flight_price,
                 duration |-> <<Str(d.duration_h), "h ", Str(d.duration_m), "m">>,
                 dates |-> "Flexible dates",
                 source |-> "Fallback data"] >>,
         accommodation_options |->
             << [name |-> <<d.hotel, destination>>,
                 type |-> "Hotel",
                 price_per_night |-> fit.hotel_price_per_night,
                 total_price |-> fit.hotel_price_per_night * num_days,
                 rating |-> d.rating,
                 location |-> "City Center",
                 source |-> "Fallback data"] >>,
         daily_itinerary |->
             DayLoop(1, num_days, start_date, EmptyDict, destination, d.focus,
                     weather_forecast, d.slots),
         unique_selling_point |->
             <<"Perfect for travelers seeking a ", Lower(d.focus), " experience">>]

\* A variant of FallbackItineraries: range(1, num_itineraries), one pass short.
FallbackItinerariesOneShort(destination, num_days, preferences, budget, num_itineraries, start_date, weather_forecast, disaster_alerts, draws) ==
    [i \in 1..(num_itineraries - 1) |->
        MakeItinerary(i, destination, num_days, preferences, budget, start_date,
                      weather_forecast, disaster_alerts, draws[i])]

\* Lines 308-386: the list the synthesizer returns; draws[i] is what pass i
\* draws, weather_forecast and disaster_alerts what lines 285-286 computed.
FallbackItineraries(destination, num_days, preferences, budget, num_itineraries, start_date, weather_forecast, disaster_alerts, draws) ==
    [i \in 1..num_itineraries |->
        MakeItinerary(i, destination, num_days, preferences, budget, start_date,
                      weather_forecast, disaster_alerts, draws[i])]

(***************************************************************************)
(* The agent's response and its parsing (lines 260-271).                   *)
(*                                                                         *)
(* A response text is a sequence of tokens:                                *)
(*   "["  "]"  ","   the JSON punctuation;                                 *)
(*   "1"             a JSON number;                                        *)
(*   "{}"            the empty JSON object;                                *)
(*   "I"             the JSON text of one itinerary object filled in as    *)
(*                   the prompt's template (lines 212-255): every field    *)
(*                   of the schema, one "Day 1" with one activity. Its     *)
(*                   text contains '[' and ']' (its three arrays);         *)
(*   "J"             the JSON text of an itinerary object the agent filled *)
(*                   in its own way: a negative total_cost, one day        *)
(*                   labelled "Day 2" and no "Day 1", one activity with an *)
(*                   empty location and one with no location;              *)
(*   "x"             prose that is no JSON, e.g. "no json here".           *)
(***************************************************************************)
Tokens == {"[", "]", ",", "1", "{}", "I", "J", "x"}

\* The object the token "I" stands for (lines 212-255).
TemplateItinerary ==
    [id |-> "unique_id",
     title |-> "Itinerary title",
     focus |-> "e.g., Luxury, Budget, Adventure, Cultural",
     description |-> "Detailed description",
     total_cost |-> 0,
     weather_considerations |-> "Notes about weather and alternative plans",
     safety_recommendations |-> "Notes about safety based on disaster alerts",
     flight_options |->
         << [airline |-> "Airline name", price |-> 0,
             duration |-> "Flight duration", dates |-> "Travel dates",
             source |-> "Data source"] >>,
     accommodation_options |->
         << [name |-> "Hotel name", type |-> "Hotel/Airbnb",
             price_per_night |-> 0, total_price |-> 0, rating |-> 0,
             location |-> "Location details", source |-> "Data source"] >>,
     daily_itinerary |->
         << [key |-> DayLabel(1),
             value |-> << [name |-> "Activity name",
                           description |-> "Activity details",
                           start_time |-> <<"0", "9", ":", "0", "0">>,
                           end_time |-> <<"1", "2", ":", "0", "0">>,
                           location |-> <<"Activity location">>,
                           cost |-> 0,
                           source |-> "Data source",
                           weather_alternative |->
                               "Alternative activity if weather is bad"] >>] >>,
     unique_selling_point |-> "What makes this itinerary special"]

\* The object the token "J" stands for: nothing in lines 260-268 keeps the
\* agent to the template.
OffTemplateItinerary ==
    [TemplateItinerary EXCEPT
        !.total_cost = -1,
        !.daily_itinerary =
            << [key |-> DayLabel(2),
                value |-> << [name |-> "Activity name",
                              description |-> "Activity details",
                              start_time |-> <<"0", "9", ":", "0", "0">>,
                              end_time |-> <<"1", "2", ":", "0", "0">>,
                              location |-> << >>,
                              cost |-> 0,
                              source |-> "Data source",
                              weather_alternative |-> ""],
                             [name |-> "Activity name",
                              description |-> "Activity details",
                              start_time |-> <<"1", "3", ":", "0", "0">>,
                              end_time |-> <<"1", "6", ":", "0", "0">>,
                              cost |-> 0,
                              source |-> "Data source",
                              weather_alternative |-> ""] >>] >>]

\* The tokens that are the text of an itinerary object, and their objects.
ItineraryTokens == {"I", "J"}

ItineraryOf(tok) == IF tok = "I" THEN TemplateItinerary ELSE OffTemplateItinerary

HasOpenBracket(tok) == tok \in {"["} \cup ItineraryTokens

HasCloseBracket(tok) == tok \in {"]"} \cup ItineraryTokens

\* json.loads: a recursive-descent parse of text from position p.
\* The result is [ok, val, next]: next is the position after the value.
JsonFail == [ok |-> FALSE, val |-> None, next |-> 0]

RECURSIVE JsonValue(_, _)
RECURSIVE JsonElements(_, _, _)
JsonValue(text, p) ==
    IF p > Len(text) THEN JsonFail
    ELSE CASE text[p] = "1" -> [ok |-> TRUE, val |-> PyNumber(1), next |-> p + 1]
           [] text[p] = "{}" -> [ok |-> TRUE, val |-> PyDict(EmptyDict), next |-> p + 1]
           [] text[p] \in ItineraryTokens ->
                [ok |-> TRUE, val |-> PyDict(ItineraryOf(text[p])), next |-> p + 1]
           [] text[p] = "[" ->
                IF p + 1 <= Len(text) /\ text[p + 1] = "]"
                THEN [ok |-> TRUE, val |-> PyList(<< >>), next |-> p + 2]
                ELSE JsonElements(text, p + 1, << >>)
           [] OTHER -> JsonFail

\* The elements of an array after its '[' or after a ',': items are those read.
JsonElements(text, p, items) ==
    LET v == JsonValue(text, p)
    IN  IF ~v.ok \/ v.next > Len(text) THEN JsonFail
        ELSE IF text[v.next] = "]"
             THEN [ok |-> TRUE, val |-> PyList(Append(items, v.val)),
                   next |-> v.next + 1]
             ELSE IF text[v.next] = ","
                  THEN JsonElements(text, v.next + 1, Append(items, v.val))
                  ELSE JsonFail

\* json.loads(text): one value and nothing after it, or JSONDecodeError.
json_loads(text) ==
    LET v == JsonValue(text, 1)
    IN  IF v.ok /\ v.next = Len(text) + 1 THEN [ok |-> TRUE, val |-> v.val]
        ELSE [ok |-> FALSE, val |-> None]

\* A variant of re_search: the lazy pattern r'\[.*?\]', whose span ends at the
\* first ']' after the first '['.
re_search_lazy(text) ==
    LET opens == {i \in 1..Len(text) : HasOpenBracket(text[i])}
        first == CHOOSE i \in opens : \A k \in opens : i <= k
        closes == {j \in 1..Len(text) :
                     /\ HasCloseBracket(text[j])
                     /\ j > first \/ (j = first /\ text[j] \in ItineraryTokens)}
    IN  IF opens = {} \/ closes = {} THEN [found |-> FALSE, first |-> 0, last |-> 0]
        ELSE [found |-> TRUE, first |-> first,
              last |-> CHOOSE j \in closes : \A k \in closes : j <= k]

\* re.search(r'\[.*\]', text, re.DOTALL): greedy, so the span runs from the
\* first '[' of the text to its last ']'. [found, first, last] are the tokens
\* that hold these two characters.
re_search(text) ==
    LET opens == {i \in 1..Len(text) : HasOpenBracket(text[i])}
        closes == {j \in 1..Len(text) : HasCloseBracket(text[j])}
    IN  IF opens = {} \/ closes = {} THEN [found |-> FALSE, first |-> 0, last |-> 0]
        ELSE LET first == CHOOSE i \in opens : \A k \in opens : i <= k
                 last == CHOOSE j \in closes : \A k \in closes : k <= j
             IN  IF first < last \/ (first = last /\ text[first] \in ItineraryTokens)
                 THEN [found |-> TRUE, first |-> first, last |-> last]
                 ELSE [found |-> FALSE, first |-> 0, last |-> 0]

\* json.loads(json_match.group()). A span that begins or ends inside the text
\* of an itinerary object is cut in the middle of that object (it begins at
\* the '[' of one of its arrays, or ends at the ']' of one): no JSON document.
SpanLoads(text, m) ==
    IF text[m.first] \in ItineraryTokens \/ text[m.last] \in ItineraryTokens
    THEN [ok |-> FALSE, val |-> None]
    ELSE json_loads(SubSeq(text, m.first, m.last))

\* A variant of ParseResponse: text that cannot be decoded gives an empty list
\* where the code raises json.JSONDecodeError.
ParseResponseLenient(text) ==
    LET json_match == re_search(text)
        parsed == IF json_match.found THEN SpanLoads(text, json_match)
                  ELSE json_loads(text)
    IN  IF parsed.ok THEN parsed ELSE [ok |-> TRUE, val |-> PyList(<< >>)]

\* Lines 261-269: [ok, val] is what the try block returns, ok = FALSE when it
\* raised json.JSONDecodeError.
ParseResponse(text) ==
    LET json_match == re_search(text)
    IN  IF json_match.found THEN SpanLoads(text, json_match)
        ELSE json_loads(text)

(***************************************************************************)
(* The calendar export, generate_ical (lines 388-418).                     *)
(***************************************************************************)
\* activity.get(key, default)
ActivityGet(activity, key, default) ==
    IF key \in DOMAIN activity THEN activity[key] ELSE default

IsDigit(ch) == \E k \in 0..9 : DigitChar(k) = ch

\* int() of a string of one or two digits.
RECURSIVE Number(_)
Number(s) ==
    IF s = << >> THEN 0
    ELSE (10 * Number(SubSeq(s, 1, Len(s) - 1)))
         + (CHOOSE k \in 0..9 : DigitChar(k) = s[Len(s)])

TimeFail == [ok |-> FALSE, hour |-> 0, minute |-> 0]

\* datetime.strptime(s, '%H:%M').time(): one or two digits of hour (0-23),
\* a colon, one or two digits of minute (0-59), and nothing else; ok = FALSE
\* stands for the ValueError of any other text.
strptime(s) ==
    LET colons == {i \in 1..Len(s) : s[i] = ":"}
    IN  IF Cardinality(colons) # 1 THEN TimeFail
        ELSE LET p == CHOOSE i \in colons : TRUE
                 h == SubSeq(s, 1, p - 1)
                 m == SubSeq(s, p + 1, Len(s))
             IN  IF /\ Len(h) \in 1..2
                    /\ Len(m) \in 1..2
                    /\ \A i \in 1..Len(h) : IsDigit(h[i])
                    /\ \A i \in 1..Len(m) : IsDigit(m[i])
                    /\ Number(h) <= 23
                    /\ Number(m) <= 59
                 THEN [ok |-> TRUE, hour |-> Number(h), minute |-> Number(m)]
                 ELSE TimeFail

\* datetime.combine(current_date, t)
combine(current_date, t) ==
    [current_date EXCEPT !.hour = t.hour, !.minute = t.minute]

\* Lines 398-414: the event of one activity; raised when a time does not parse.
MakeEvent(activity, current_date, destination) ==
    LET start_t == strptime(ActivityGet(activity, "start_time",
                                        <<"0", "9", ":", "0", "0">>))
        end_t == strptime(ActivityGet(activity, "end_time",
                                      <<"1", "2", ":", "0", "0">>))
    IN  IF ~start_t.ok \/ ~end_t.ok THEN [raised |-> TRUE, event |-> None]
        ELSE [raised |-> FALSE,
              event |->
                [summary |-> ActivityGet(activity, "name", "Activity"),
                 description |-> ActivityGet(activity, "description", ""),
                 dtstart |-> combine(current_date, start_t),
                 dtend |-> combine(current_date, end_t),
                 location |-> ActivityGet(activity, "location", destination)]]

\* Line 397: the loop over the activities of one day, from the j-th on.
RECURSIVE IcalActivities(_, _, _, _, _)
IcalActivities(j, day_activities, current_date, destination, events) ==
    IF j > Len(day_activities) THEN [raised |-> FALSE, events |-> events]
    ELSE LET e == MakeEvent(day_activities[j], current_date, destination)
         IN  IF e.raised THEN [raised |-> TRUE, events |-> events]
             ELSE IcalActivities(j + 1, day_activities, current_date, destination,
                                 Append(events, e.event))

\* Lines 396-416: the loop over the items of daily_itinerary, in the order of
\* the dict, from the k-th on; current_date advances by one day per item.
RECURSIVE IcalDays(_, _, _, _, _)
IcalDays(k, daily, current_date, destination, events) ==
    IF k > Len(daily) THEN [raised |-> FALSE, events |-> events]
    ELSE LET day == IcalActivities(1, daily[k].value, current_date, destination,
                                   events)
         IN  IF day.raised THEN day
             ELSE IcalDays(k + 1, daily, AddDay(current_date), destination,
                           day.events)

\* generate_ical(itinerary, destination, start_date): the events of the
\* calendar, in the order they are added, or the ValueError of strptime.
generate_ical(itinerary, destination, start_date) ==
    LET daily == IF "daily_itinerary" \in DOMAIN itinerary
                 THEN itinerary.daily_itinerary ELSE EmptyDict
        cal == IcalDays(1, daily, start_date, destination, << >>)
    IN  IF cal.raised THEN [kind |-> "ValueError", val |-> << >>]
        ELSE [kind |-> "ical", val |-> cal.events]

(***************************************************************************)
(* The services of the booking wizard: src/src/user_manager.py,            *)
(* src/src/booking_services.py and src/src/payment_gateway.py on their     *)
(* BigQuery tables. tables is [users, bookings, payments], each table the  *)
(* sequence of its rows in insertion order; a service call takes the       *)
(* tables and returns the tables after it.                                 *)
(***************************************************************************)
\* bool(v) of a tagged value, as `if v:` and `if not v:` test it.
Truthy(v) ==
    CASE v.kind = "None" -> FALSE
      [] v.kind = "list" -> Len(v.val) > 0
      [] v.kind = "dict" -> DOMAIN v.val # {}
      [] OTHER -> v.val # 0

\* itinerary.get(key, default) on a tagged dict.
ItineraryGet(itinerary, key, default) ==
    IF key \in DOMAIN itinerary.val THEN itinerary.val[key] ELSE default

\* json.dumps and json.loads of the booking data.
Dumps(data) == [json |-> data]

Loads(text) == text.json

\* hashlib.sha256(password.encode()).hexdigest()
_hash_password(password) == <<"sha256", password>>

\* UserManager() (user_manager.py lines 13-56): create_table(exists_ok=True)
\* leaves existing tables and their rows alone.
UserManagerInit(t) == t

\* BookingServices() (booking_services.py lines 54-91): _ensure_tables_exist
\* deletes the bookings table and creates it again, empty.
BookingServicesInit(t) == [t EXCEPT !.bookings = << >>]

\* The services the script builds on every run (src/main.py lines 33-37).
ScriptTop(t) == BookingServicesInit(UserManagerInit(t))

\* The rows of a table of the given email, newest first.
RECURSIVE RowsOf(_, _)
RowsOf(rows, email) ==
    IF Len(rows) = 0 THEN << >>
    ELSE LET older == RowsOf(SubSeq(rows, 1, Len(rows) - 1), email)
             last == rows[Len(rows)]
         IN  IF last.email = email THEN <<last>> \o older ELSE older

\* get_booking_history (user_manager.py lines 173-196): the booking_data of
\* the user's rows of bookings, ORDER BY created_at DESC, each json.loads'ed.
get_booking_history(t, email) ==
    LET rows == RowsOf(t.bookings, email)
    IN  [i \in 1..Len(rows) |-> Loads(rows[i].booking_data)]

\* register (lines 58-97): None for an email already in users, else the row
\* is inserted and the user dict returned.
register(t, email, password) ==
    IF Len(RowsOf(t.users, email)) > 0
    THEN [tables |-> t, user |-> None]
    ELSE [tables |-> [t EXCEPT !.users =
                        Append(@, [email |-> email,
                                   password_hash |-> _hash_password(password),
                                   preferences |-> Dumps(EmptyDict)])],
          user |-> PyDict([email |-> email, authenticated |-> TRUE])]

\* login (lines 99-130): the first row of the email with the password's
\* hash, with the user's booking history.
login(t, email, password) ==
    LET rows == SelectSeq(RowsOf(t.users, email),
                          LAMBDA row : row.password_hash = _hash_password(password))
    IN  IF Len(rows) = 0 THEN None
        ELSE PyDict([email |-> rows[1].email,
                     booking_history |-> get_booking_history(t, email),
                     preferences |-> Loads(rows[1].preferences),
                     authenticated |-> TRUE])

\* update_user_preferences (lines 132-151): UPDATE users SET preferences.
update_user_preferences(t, email, preferences) ==
    [t EXCEPT !.users =
        [i \in 1..Len(@) |->
            IF @[i].email = email
            THEN [@[i] EXCEPT !.preferences = Dumps(preferences)]
            ELSE @[i]]]

\* booking_data.get(key, default) of the dict built at main.py lines 435-442.
DataGet(data, key, default) == IF key \in DOMAIN data THEN data[key] ELSE default

\* add_booking_to_history (lines 153-171): one row loaded into bookings; ts
\* is datetime.utcnow().timestamp().
add_booking_to_history(t, email, booking_data, ts) ==
    [t EXCEPT !.bookings =
        Append(@, [email |-> email,
                   booking_id |-> DataGet(booking_data, "booking_id", <<"BK", ts>>),
                   booking_type |-> DataGet(booking_data, "type", "unknown"),
                   booking_data |-> Dumps(booking_data)])]

\* The body shared by book_flight, book_hotel and book_activity
\* (booking_services.py lines 9-51, 93-135, 180-223): d.success is
\* random.random() > 0.1 and d.booking_id the number drawn for the id.
Book(t, email, itinerary_id, data, prefix, type, price, error, d) ==
    IF d.success
    THEN [tables |-> [t EXCEPT !.bookings =
                        Append(@, [email |-> email,
                                   booking_id |-> <<prefix, d.booking_id>>,
                                   booking_type |-> type,
                                   booking_data |-> Dumps(data)])],
          result |-> [success |-> TRUE,
                      booking_id |-> <<prefix, d.booking_id>>,
                      price |-> price,
                      itinerary_id |-> itinerary_id]]
    ELSE [tables |-> t, result |-> [success |-> FALSE, error |-> error]]

book_flight(t, email, itinerary_id, flight_data, d) ==
    Book(t, email, itinerary_id, flight_data, "FL", "flight",
         DataGet(flight_data, "price", 0),
         "No available flights matching your criteria", d)

book_hotel(t, email, itinerary_id, hotel_data, d) ==
    Book(t, email, itinerary_id, hotel_data, "HT", "hotel",
         DataGet(hotel_data, "total_price", 0),
         "No available hotels matching your criteria", d)

book_activity(t, email, itinerary_id, activity_data, d) ==
    Book(t, email, itinerary_id, activity_data, "AC", "activity",
         DataGet(activity_data, "cost", 0),
         "Activity not available for the selected dates", d)

\* process_payment (payment_gateway.py lines 36-78): d.success is
\* random.random() > 0.05 and d.transaction_id the number drawn for the id.
process_payment(t, amount, description, d) ==
    IF d.success
    THEN [tables |-> [t EXCEPT !.payments =
                        Append(@, [transaction_id |-> <<"TXN", d.transaction_id>>,
                                   amount |-> amount,
                                   description |-> description])],
          result |-> [success |-> TRUE,
                      transaction_id |-> <<"TXN", d.transaction_id>>,
                      amount |-> amount]]
    ELSE [tables |-> t,
          result |-> [success |-> FALSE, error |-> "Payment declined by bank"]]

(***************************************************************************)
(* The state: the requests running generate_itineraries on the one         *)
(* ItineraryGenerator of the process (src/main.py line 37).                *)
(***************************************************************************)
VARIABLES
    call,       \* call[r]: the frame of request r's generate_itineraries
    mcp_tools,  \* self.mcp_tools
    page,       \* what the Streamlit page shows and offers for download
    session,    \* st.session_state (src/main.py lines 21-31)
    tables,     \* the BigQuery tables users, bookings and payments
    run,        \* the last run of the script src/main.py
    ledger      \* history: the booking whose insertion succeeded last, if any

vars == <<call, mcp_tools, page, session, tables, run, ledger>>

\* The page before anything was submitted or exported (src/main.py).
\* selected is <<r, i>> once itinerary i of request r was chosen for export.
NoPage == [error |-> "", selected |-> << >>, ical |-> None]

\* st.session_state after lines 21-31 of src/main.py; destination is set
\* with the itineraries (line 147).
NoSession ==
    [user |-> None,
     itineraries |-> PyList(<< >>),
     selected_itinerary |-> None,
     booking_results |-> EmptyDict,
     current_step |-> 0,
     destination |-> << >>]

NoTables == [users |-> << >>, bookings |-> << >>, payments |-> << >>]

\* The last run of the script: rerun says that it ended in st.rerun(), so
\* that the script runs again before the user can act; section is the part
\* of the pages it rendered, message what it reported, and payment,
\* history_added and preferences_updated what its payment handler did.
NoRun ==
    [rerun |-> FALSE,
     section |-> "none",
     message |-> "",
     payment |-> "none",
     history_added |-> FALSE,
     preferences_updated |-> FALSE]

\* main() (src/main.py lines 489-512): the page a run of the script shows
\* for the session state s.
main(s) ==
    IF s.user.kind = "None" THEN "login"
    ELSE IF s.current_step = 0 THEN "planner"
    ELSE "booking"

\* booking_page (lines 208-487): the section of the page it renders.
booking_page(s) ==
    IF ~Truthy(s.selected_itinerary) THEN "warning"
    ELSE CASE s.current_step = 0 -> "review"
           [] s.current_step = 1 -> "flight"
           [] s.current_step = 2 -> "hotel"
           [] s.current_step = 3 -> "activities"
           [] s.current_step = 4 -> "payment"
           [] s.current_step = 5 -> "confirmation"
           [] OTHER -> "blank"

\* What a run of the script renders for the session state s.
Section(s) == IF main(s) = "booking" THEN booking_page(s) ELSE main(s)

Requests == {1, 2}

\* The user can act on the given section: no st.rerun() is pending, no run
\* is inside generate_itineraries and the script renders the section.
Ready(section) ==
    /\ ~run.rerun
    /\ \A r \in Requests : call[r].pc = "unused"
    /\ Section(session) = section

\* What a run that rendered `section` leaves: rerun says st.rerun() ended it.
RunOf(section, rerun, message) ==
    [NoRun EXCEPT !.section = section, !.rerun = rerun, !.message = message]

\* user['email'] and user.get('preferences', {}) of st.session_state.user.
UserEmail(s) == s.user.val.email

UserPreferences(s) ==
    IF "preferences" \in DOMAIN s.user.val THEN s.user.val.preferences ELSE EmptyDict

\* The frame of a request that was not made.
NoCall ==
    [pc |-> "unused",
     args |-> None,
     weather_forecast |-> EmptyDict,
     disaster_alerts |-> << >>,
     connected |-> "unset",
     agent_tools |-> None,
     agents_built |-> 0,
     arun_calls |-> 0,
     has_response |-> FALSE,
     response |-> << >>,
     failed |-> {},
     fallback_calls |-> 0,
     fallback_raised |-> 0,
     last_fallback |-> "none",
     fallback_forecast |-> EmptyDict,
     fallback_alerts |-> << >>,
     fallback_prices |-> << >>,
     outcome |-> "pending",
     source |-> "none",
     result |-> None]

\* The frame on entry, args being the arguments of the call (lines 142-144).
NewCall(args) == [NoCall EXCEPT !.pc = "start", !.args = args]

(***************************************************************************)
(* What the oracle and the synthesizer draw. env is the environment of a   *)
(* specification: the sample sets its random draws, its agent's responses  *)
(* and its injected failures are chosen from.                              *)
(***************************************************************************)
\* What the passes of the forecast loop draw: of the sampled draws, those
\* random.choice and random.randint can return (lines 79-84).
ForecastDraws(num_days, env) ==
    [1..num_days -> {w \in env.weather : IsWeatherDraw(w)}]

\* What _check_natural_disasters draws: the outcome of random.random() > 0.7
\* and the index random.choice picks in disasters[1:] (lines 135-138).
AlertDraws(env) == env.rolls \X (env.picks \cap (2..Len(disasters)))

\* random.randint(lo, hi): those of the sampled values it can return.
randint(lo, hi, samples) == samples \cap (lo..hi)

\* A variant of SlotDraws: the cost drawn by random.randint(20, 200).
SlotDrawsWideCost(env) ==
    {s \in env.slot :
        /\ s.activity_type \in DOMAIN activities
        /\ s.name \in 1..Len(activities[s.activity_type])
        /\ s.cost \in randint(20, 200, {s.cost})}

\* What one activity draws (lines 362-363 and 376): a type and a name of the
\* tables, and random.randint(20, 100) for the cost.
SlotDraws(env) ==
    {s \in env.slot :
        /\ s.activity_type \in DOMAIN activities
        /\ s.name \in 1..Len(activities[s.activity_type])
        /\ s.cost \in randint(20, 100, {s.cost})}

\* What one pass of the loop over the itineraries draws (lines 310-312, 332,
\* 334, 341, 345 and the slots of its 2 * num_days activities).
ItineraryDraws(num_days, env) ==
    [focus : env.focus,
     flight_price : randint(200, 600, env.flight_price),
     hotel_price_per_night : randint(80, 300, env.hotel_price_per_night),
     ulp_flight : env.ulp,
     ulp_hotel : env.ulp,
     airline : env.airline,
     hotel : env.hotel,
     duration_h : randint(2, 8, env.duration_h),
     duration_m : randint(0, 59, env.duration_m),
     rating : randint(35, 50, env.rating),
     slots : [1..(2 * num_days) -> SlotDraws(env)]]

\* The list of dicts `items`, tagged.
ListOfDicts(items) == PyList([i \in 1..Len(items) |-> PyDict(items[i])])

\* One run of _generate_fallback_itineraries (lines 277-386) with the
\* arguments a, drawing w, al and ds: lines 285-286, then the loop.
FallbackRun(a, w, al, ds) ==
    LET weather_forecast ==
            get_weather_forecast(a.destination, a.start_date, a.num_days, w)
        disaster_alerts ==
            check_natural_disasters(a.destination, a.start_date, al[1], al[2])
    IN  [raised |-> FALSE,
         val |-> ListOfDicts(
                    FallbackItineraries(a.destination, a.num_days, a.preferences,
                        a.budget, a.num_itineraries, a.start_date,
                        weather_forecast, disaster_alerts, ds)),
         forecast |-> weather_forecast,
         alerts |-> disaster_alerts,
         prices |-> [i \in 1..Len(ds) |->
                       [flight_price |-> ds[i].flight_price,
                        hotel_price_per_night |-> ds[i].hotel_price_per_night]]]

\* The set of the possible outcomes of one call of the synthesizer. It raises
\* only when a failure is injected (env.fallback_fails).
generate_fallback_itineraries(a, env) ==
    { [raised |-> TRUE, val |-> None, forecast |-> EmptyDict, alerts |-> << >>,
       prices |-> << >>] :
        f \in env.fallback_fails \cap {TRUE} }
    \cup
    { FallbackRun(a, w, al, ds) :
        w \in ForecastDraws(a.num_days, env),
        al \in AlertDraws(env),
        ds \in [1..a.num_itineraries -> ItineraryDraws(a.num_days, env)],
        f \in env.fallback_fails \cap {FALSE} }

\* The frame c after a call of the synthesizer that ended as o.
AfterFallback(c, o) ==
    [c EXCEPT !.fallback_calls = @ + 1,
              !.fallback_raised = @ + (IF o.raised THEN 1 ELSE 0),
              !.last_fallback = IF o.raised THEN "raised" ELSE "returned",
              !.fallback_forecast = o.forecast,
              !.fallback_alerts = o.alerts,
              !.fallback_prices = o.prices]

\* `return <value>`: the call ends with a result.
Return(c, source, val) ==
    [c EXCEPT !.pc = "done", !.outcome = "returned", !.source = source,
              !.result = val]

\* An exception leaves generate_itineraries.
Raise(c) == [c EXCEPT !.pc = "done", !.outcome = "raised"]

\* A variant of ExceptHandler: the handler re-raises what it caught.
ExceptHandlerReraises(c, env) == {Raise(c)}

\* Lines 273-275, the handler of the outer try: the frames the call can end in.
ExceptHandler(c, env) ==
    { LET c1 == AfterFallback(c, o)
      IN  IF o.raised THEN Raise(c1) ELSE Return(c1, "fallback", o.val) :
        o \in generate_fallback_itineraries(c.args, env) }

\* `return self._generate_fallback_itineraries(...)` inside the outer try
\* (lines 156 and 271): an exception of the synthesizer is caught by the
\* handler of line 273.
ReturnFallbackInTry(c, env) ==
    UNION { LET c1 == AfterFallback(c, o)
            IN  IF o.raised THEN ExceptHandler(c1, env)
                ELSE {Return(c1, "fallback", o.val)} :
              o \in generate_fallback_itineraries(c.args, env) }

\* A variant of HandleResponse: a response that cannot be decoded makes the
\* request ask the agent once more instead of going to the synthesizer.
HandleResponseRetries(c, env) ==
    LET parsed == ParseResponse(c.response)
    IN  IF parsed.ok THEN {Return(c, "agent", parsed.val)}
        ELSE {[c EXCEPT !.failed = @ \cup {"parse"}, !.arun_calls = @ + 1,
                        !.pc = "arun"]}

\* Lines 260-271: the response text is parsed; a JSONDecodeError leads to
\* the synthesizer, anything parsed is returned.
HandleResponse(c, env) ==
    LET parsed == ParseResponse(c.response)
    IN  IF parsed.ok THEN {Return(c, "agent", parsed.val)}
        ELSE ReturnFallbackInTry([c EXCEPT !.failed = @ \cup {"parse"}], env)

\* A variant of ConnectFailed: connect_mcp_servers without its try/except, so
\* the exception reaches the handler of generate_itineraries (line 273).
ConnectFailedUncaught(c, env) ==
    ExceptHandler([c EXCEPT !.failed = @ \cup {"connect"}], env)

\* connect_mcp_servers raised inside its try (lines 59-61): it returns False,
\* and lines 155-156 return the synthesizer's result.
ConnectFailed(c, env) ==
    ReturnFallbackInTry(
        [c EXCEPT !.connected = "false", !.failed = @ \cup {"connect"}], env)

\* A MultiMCPTools object (line 44): who built it, and whether it connected.
NewTools(r) == [kind |-> "MultiMCPTools", val |-> [owner |-> r, connected |-> FALSE]]

(***************************************************************************)
(* generate_itineraries, one action per stretch between two awaits.        *)
(***************************************************************************)
\* Lines 147-154 and, inside connect_mcp_servers, lines 43-57 up to the await
\* of connect().
Start(r, env) ==
    /\ call[r].pc = "start"
    /\ UNCHANGED <<page, session, tables, run, ledger>>
    /\ \E oracle_fails \in env.oracle_fails, tools_fail \in env.tools_fail :
         LET c == call[r]
         IN  IF oracle_fails
             THEN /\ \E c2 \in ExceptHandler([c EXCEPT !.failed = @ \cup {"oracle"}], env) :
                        call' = [call EXCEPT ![r] = c2]
                  /\ UNCHANGED mcp_tools
             ELSE \E w \in ForecastDraws(c.args.num_days, env), al \in AlertDraws(env) :
                    LET c1 == [c EXCEPT
                                 !.weather_forecast =
                                     get_weather_forecast(c.args.destination,
                                         c.args.start_date, c.args.num_days, w),
                                 !.disaster_alerts =
                                     check_natural_disasters(c.args.destination,
                                         c.args.start_date, al[1], al[2])]
                    IN  IF tools_fail
                        THEN \* line 44 raised: connect_mcp_servers returns False
                             /\ \E c2 \in ConnectFailed(c1, env) :
                                   call' = [call EXCEPT ![r] = c2]
                             /\ UNCHANGED mcp_tools
                        ELSE /\ call' = [call EXCEPT ![r] = [c1 EXCEPT !.pc = "connect"]]
                             /\ mcp_tools' = NewTools(r)

\* connect() ends (line 57): lines 58-61, 155-156 and, when connected, the
\* construction of the agent and the call of arun (lines 159-258).
ConnectDone(r, env) ==
    /\ call[r].pc = "connect"
    /\ UNCHANGED <<page, session, tables, run, ledger>>
    /\ \E connect_fails \in env.connect_fails, agent_fails \in env.agent_fails :
         LET c == call[r]
         IN  IF connect_fails
             THEN /\ \E c2 \in ConnectFailed(c, env) :
                        call' = [call EXCEPT ![r] = c2]
                  /\ UNCHANGED mcp_tools
             ELSE /\ mcp_tools' =
                        IF mcp_tools.kind = "MultiMCPTools" /\ mcp_tools.val.owner = r
                        THEN [mcp_tools EXCEPT !.val.connected = TRUE]
                        ELSE mcp_tools
                  /\ IF agent_fails
                     THEN \E c2 \in ExceptHandler(
                                [c EXCEPT !.connected = "true",
                                          !.failed = @ \cup {"agent"}], env) :
                            call' = [call EXCEPT ![r] = c2]
                     ELSE call' = [call EXCEPT ![r] =
                                     [c EXCEPT !.connected = "true",
                                               !.agent_tools = mcp_tools',
                                               !.agents_built = @ + 1,
                                               !.arun_calls = @ + 1,
                                               !.pc = "arun"]]

\* arun ends (line 258): it raised, or it returned a response, which lines
\* 260-271 parse.
ArunDone(r, env) ==
    /\ call[r].pc = "arun"
    /\ UNCHANGED <<page, session, tables, run, ledger>>
    /\ UNCHANGED mcp_tools
    /\ \E arun_fails \in env.arun_fails :
         LET c == call[r]
         IN  IF arun_fails
             THEN \E c2 \in ExceptHandler([c EXCEPT !.failed = @ \cup {"arun"}], env) :
                     call' = [call EXCEPT ![r] = c2]
             ELSE \E text \in env.responses :
                    \E c2 \in HandleResponse(
                                 [c EXCEPT !.has_response = TRUE, !.response = text], env) :
                       call' = [call EXCEPT ![r] = c2]

\* A direct call of _generate_fallback_itineraries (lines 277-386).
Synthesize(r, env) ==
    /\ call[r].pc = "start"
    /\ UNCHANGED <<page, session, tables, run, ledger>>
    /\ UNCHANGED mcp_tools
    /\ \E c2 \in ExceptHandler(call[r], env) : call' = [call EXCEPT ![r] = c2]

\* A call of generate_itineraries (lines 142-147) by any caller, with the
\* arguments a drawn from `callers`: the body begins at once, with no check
\* of the arguments.
GenerateCall(r, callers) ==
    /\ call[r].pc = "unused"
    /\ UNCHANGED <<mcp_tools, page, session, tables, run, ledger>>
    /\ \E a \in callers : call' = [call EXCEPT ![r] = NewCall(a)]

\* The trip planning form is submitted (src/main.py lines 106-142). The
\* sliders keep num_days in 1..30 and budget in 500..10000 by steps of 100;
\* the handler checks the destination only, then calls generate_itineraries
\* for 3 itineraries.
SubmitForm(r, form) ==
    /\ Ready("planner")
    /\ mcp_tools' = None
    /\ tables' = ScriptTop(tables)
    /\ run' = RunOf("planner", FALSE, "")
    /\ UNCHANGED <<session, ledger>>
    /\ \E destination \in form.destination,
          start_date \in form.start_date,
          num_days \in form.num_days \cap (1..30),
          budget \in {b \in form.budget \cap (500..10000) : b % 100 = 0},
          preferences \in form.preferences :
         IF destination = << >>
         THEN /\ page' = [page EXCEPT !.error = "Please enter a destination"]
              /\ UNCHANGED call
         ELSE /\ page' = [page EXCEPT !.error = ""]
              /\ call' = [call EXCEPT ![r] =
                            NewCall([destination |-> destination,
                                     num_days |-> num_days,
                                     preferences |-> preferences,
                                     budget |-> budget,
                                     num_itineraries |-> 3,
                                     start_date |-> start_date])]

\* The review screen of the booking page (src/main.py lines 228-245) exports
\* itinerary i of what request r returned: generate_ical with the destination
\* and the start date of the request.
ExportIcal(r) ==
    /\ call[r].pc = "done"
    /\ call[r].outcome = "returned"
    /\ call[r].result.kind = "list"
    /\ page.selected = << >>
    /\ UNCHANGED <<call, mcp_tools, session, tables, run, ledger>>
    /\ \E i \in 1..Len(call[r].result.val) :
         LET itinerary == call[r].result.val[i]
         IN  page' = [page EXCEPT
                        !.selected = <<r, i>>,
                        !.ical =
                            IF itinerary.kind = "dict"
                            THEN generate_ical(itinerary.val,
                                               call[r].args.destination,
                                               call[r].args.start_date)
                            ELSE [kind |-> "AttributeError", val |-> << >>]]

(***************************************************************************)
(* The pages of src/main.py, one action per run of the script. Streamlit   *)
(* runs the script from its first line for every event of the user and for *)
(* every st.rerun(): the run builds the services (lines 33-37), then       *)
(* main() shows a page, whose handler of the event runs. w is the          *)
(* environment of the wizard: what the user types and what the services    *)
(* draw.                                                                   *)
(***************************************************************************)
\* The Register form (lines 66-82).
Register(w) ==
    /\ Ready("login")
    /\ UNCHANGED <<call, mcp_tools, page, ledger>>
    /\ \E email \in w.email, password \in w.password, confirm_password \in w.typed :
         IF password # confirm_password
         THEN /\ tables' = ScriptTop(tables)
              /\ run' = RunOf("login", FALSE, "Passwords do not match")
              /\ UNCHANGED session
         ELSE LET reg == register(ScriptTop(tables), email, password)
              IN  /\ tables' = reg.tables
                  /\ IF Truthy(reg.user)
                     THEN /\ session' = [session EXCEPT !.user = reg.user]
                          /\ run' = RunOf("login", TRUE, "Registration successful!")
                     ELSE /\ UNCHANGED session
                          /\ run' = RunOf("login", FALSE, "Email already exists")

\* The Login form (lines 49-62).
Login(w) ==
    /\ Ready("login")
    /\ UNCHANGED <<call, mcp_tools, page, ledger>>
    /\ tables' = ScriptTop(tables)
    /\ \E email \in w.email, password \in w.typed :
         LET user == login(ScriptTop(tables), email, password)
         IN  IF Truthy(user)
             THEN /\ session' = [session EXCEPT !.user = user]
                  /\ run' = RunOf("login", TRUE, "Login successful!")
             ELSE /\ UNCHANGED session
                  /\ run' = RunOf("login", FALSE, "Invalid email or password")

\* The Logout button of the planner's sidebar (lines 93-97).
Logout ==
    /\ Ready("planner")
    /\ UNCHANGED <<call, mcp_tools, page, ledger>>
    /\ tables' = ScriptTop(tables)
    /\ session' = [session EXCEPT
                     !.user = None,
                     !.itineraries = PyList(<< >>),
                     !.selected_itinerary = None]
    /\ run' = RunOf("planner", TRUE, "")

\* generate_itineraries came back to the form's handler (lines 146-154):
\* the itineraries and the destination are stored, and len(itineraries) is
\* reported; an exception, of the call or of len, is reported instead.
FormDone(r) ==
    /\ call[r].pc = "done"
    /\ UNCHANGED <<mcp_tools, tables, run, ledger>>
    /\ call' = [call EXCEPT ![r] = NoCall]
    /\ IF call[r].outcome = "returned"
       THEN /\ session' = [session EXCEPT
                             !.itineraries = call[r].result,
                             !.destination = call[r].args.destination]
            /\ page' = [page EXCEPT !.error =
                          IF call[r].result.kind \in {"list", "dict"} THEN ""
                          ELSE "Error generating itineraries"]
       ELSE /\ UNCHANGED session
            /\ page' = [page EXCEPT !.error = "Error generating itineraries"]

\* A "Select Option i" button of the planner (lines 158-183); the options
\* before it were rendered with itinerary.get.
SelectItinerary ==
    /\ Ready("planner")
    /\ session.itineraries.kind = "list"
    /\ UNCHANGED <<call, mcp_tools, page, ledger>>
    /\ tables' = ScriptTop(tables)
    /\ \E i \in 1..Len(session.itineraries.val) :
         /\ \A j \in 1..i : session.itineraries.val[j].kind = "dict"
         /\ session' = [session EXCEPT
                          !.selected_itinerary = session.itineraries.val[i],
                          !.current_step = 1]
    /\ run' = RunOf("planner", TRUE, "")

\* The run that st.rerun() asked for, with no event of the user. The booking
\* page without a selected itinerary sends the user back (lines 212-216).
Rerun ==
    /\ run.rerun
    /\ UNCHANGED <<call, mcp_tools, page, ledger>>
    /\ tables' = ScriptTop(tables)
    /\ IF Section(session) = "warning"
       THEN /\ session' = [session EXCEPT !.current_step = 0]
            /\ run' = RunOf("warning", TRUE, "Please select an itinerary first")
       ELSE /\ UNCHANGED session
            /\ run' = RunOf(Section(session), FALSE, "")

\* A booking button of step 1, 2 or 3 (lines 273-288, 306-321, 352-368):
\* the result is kept in booking_results, under `key` or appended to the
\* list under 'activities'.
Booked(section, booking, next_step) ==
    /\ tables' = booking.tables
    /\ ledger' = IF booking.result.success
                 THEN {<<UserEmail(session), booking.result.booking_id>>}
                 ELSE ledger
    /\ run' = RunOf(section,
                    booking.result.success /\ next_step # session.current_step,
                    IF booking.result.success THEN "booked" ELSE "Booking failed")

\* "Book This Flight" (lines 273-288).
BookFlight(w) ==
    /\ Ready("flight")
    /\ UNCHANGED <<call, mcp_tools, page>>
    /\ LET itinerary == session.selected_itinerary
           flights == ItineraryGet(itinerary, "flight_options", << >>)
       IN  \E i \in 1..Len(flights), success \in w.booked, n \in w.booking_id :
             LET booking == book_flight(ScriptTop(tables), UserEmail(session),
                                        ItineraryGet(itinerary, "id", "unknown"),
                                        flights[i],
                                        [success |-> success, booking_id |-> n])
             IN  /\ Booked("flight", booking, 2)
                 /\ session' = [session EXCEPT
                                  !.booking_results = DictSet(@, "flight", booking.result),
                                  !.current_step = IF booking.result.success THEN 2 ELSE @]

\* "Skip Flight Booking" (lines 290-292).
SkipFlight ==
    /\ Ready("flight")
    /\ UNCHANGED <<call, mcp_tools, page, ledger>>
    /\ tables' = ScriptTop(tables)
    /\ session' = [session EXCEPT !.current_step = 2]
    /\ run' = RunOf("flight", TRUE, "")

\* "Book This Hotel" (lines 306-321).
BookHotel(w) ==
    /\ Ready("hotel")
    /\ UNCHANGED <<call, mcp_tools, page>>
    /\ LET itinerary == session.selected_itinerary
           hotel_options == ItineraryGet(itinerary, "accommodation_options", << >>)
       IN  \E i \in 1..Len(hotel_options), success \in w.booked, n \in w.booking_id :
             LET booking == book_hotel(ScriptTop(tables), UserEmail(session),
                                       ItineraryGet(itinerary, "id", "unknown"),
                                       hotel_options[i],
                                       [success |-> success, booking_id |-> n])
             IN  /\ Booked("hotel", booking, 3)
                 /\ session' = [session EXCEPT
                                  !.booking_results = DictSet(@, "hotel", booking.result),
                                  !.current_step = IF booking.result.success THEN 3 ELSE @]

\* "Skip Hotel Booking" (lines 323-325).
SkipHotel ==
    /\ Ready("hotel")
    /\ UNCHANGED <<call, mcp_tools, page, ledger>>
    /\ tables' = ScriptTop(tables)
    /\ session' = [session EXCEPT !.current_step = 3]
    /\ run' = RunOf("hotel", TRUE, "")

\* activities_to_book (lines 331-338): the activities of every day that cost
\* something, in the order of the days.
RECURSIVE ActivitiesToBook(_)
ActivitiesToBook(daily_itinerary) ==
    IF Len(daily_itinerary) = 0 THEN << >>
    ELSE SelectSeq(daily_itinerary[1].value,
                   LAMBDA activity : DataGet(activity, "cost", 0) > 0)
         \o ActivitiesToBook(Tail(daily_itinerary))

\* "Book This Activity" (lines 352-368): the step stays 3. The list of
\* results is kept to MaxActivityBookings entries.
BookActivity(w) ==
    /\ Ready("activities")
    /\ Len(DictGet(session.booking_results, "activities", << >>)) < MaxActivityBookings
    /\ UNCHANGED <<call, mcp_tools, page>>
    /\ LET itinerary == session.selected_itinerary
           activities_to_book ==
               ActivitiesToBook(ItineraryGet(itinerary, "daily_itinerary", EmptyDict))
       IN  \E i \in 1..Len(activities_to_book), success \in w.booked, n \in w.booking_id :
             LET booking == book_activity(ScriptTop(tables), UserEmail(session),
                                          ItineraryGet(itinerary, "id", "unknown"),
                                          activities_to_book[i],
                                          [success |-> success, booking_id |-> n])
             IN  /\ Booked("activities", booking, 3)
                 /\ session' = [session EXCEPT
                                  !.booking_results =
                                      DictSet(@, "activities",
                                              Append(DictGet(@, "activities", << >>),
                                                     booking.result))]

\* "Continue to Payment" (lines 370-377), with or without bookable
\* activities.
ContinueToPayment ==
    /\ Ready("activities")
    /\ UNCHANGED <<call, mcp_tools, page, ledger>>
    /\ tables' = ScriptTop(tables)
    /\ session' = [session EXCEPT !.current_step = 4]
    /\ run' = RunOf("activities", TRUE, "")

\* What process_payment returned, as the run records it.
PaymentOutcome(payment_result) ==
    IF payment_result.success THEN "success" ELSE "declined"

\* A payment handler that goes on whatever process_payment returned.
PaymentAcceptedAlways(payment_result) == TRUE

\* payment_result.get('success') (line 431).
PaymentAccepted(payment_result) == payment_result.success

\* The payment form (lines 405-463). filled says that every field is filled
\* and the terms agreed to. The payments table is kept to MaxPayments rows.
ProcessPayment(w) ==
    /\ Ready("payment")
    /\ Len(tables.payments) < MaxPayments
    /\ UNCHANGED <<call, mcp_tools, page>>
    /\ \E filled \in w.filled, success \in w.paid, n \in w.transaction_id, ts \in w.timestamp :
         LET itinerary == session.selected_itinerary
             total_cost == ItineraryGet(itinerary, "total_cost", 0)
             payment == process_payment(ScriptTop(tables), total_cost,
                                        <<"Travel booking for ", session.destination>>,
                                        [success |-> success, transaction_id |-> n])
             booking_data ==
                 [type |-> "complete_package",
                  destination |-> session.destination,
                  itinerary_id |-> ItineraryGet(itinerary, "id", None),
                  total_cost |-> total_cost,
                  payment_reference |->
                      DataGet(payment.result, "transaction_id", None)]
             current_prefs ==
                 DictSet(DictSet(DictSet(UserPreferences(session),
                                         "last_destination", session.destination),
                                 "preferred_budget", total_cost),
                         "travel_style", Lower(ItineraryGet(itinerary, "focus", "")))
         IN  IF ~filled
             THEN /\ tables' = ScriptTop(tables)
                  /\ run' = RunOf("payment", FALSE,
                                  "Please fill all fields and agree to terms")
                  /\ UNCHANGED <<session, ledger>>
             ELSE IF PaymentAccepted(payment.result)
             THEN /\ tables' = update_user_preferences(
                                   add_booking_to_history(payment.tables,
                                                          UserEmail(session),
                                                          booking_data, ts),
                                   UserEmail(session), current_prefs)
                  /\ ledger' = {<<UserEmail(session), <<"BK", ts>>>>}
                  /\ session' = [session EXCEPT
                                   !.user.val =
                                       IF "preferences" \in DOMAIN @
                                       THEN [@ EXCEPT !.preferences = current_prefs]
                                       ELSE @,
                                   !.current_step = 5]
                  /\ run' = [RunOf("payment", TRUE, "Payment processed successfully!")
                               EXCEPT !.payment = PaymentOutcome(payment.result),
                                      !.history_added = TRUE,
                                      !.preferences_updated = TRUE]
             ELSE /\ tables' = payment.tables
                  /\ run' = [RunOf("payment", FALSE, "Payment failed")
                               EXCEPT !.payment = PaymentOutcome(payment.result)]
                  /\ UNCHANGED <<session, ledger>>

\* "Plan Another Trip" without the reset of booking_results.
PlanAnotherTripKeepsResults ==
    /\ Ready("confirmation")
    /\ UNCHANGED <<call, mcp_tools, page, ledger>>
    /\ tables' = ScriptTop(tables)
    /\ session' = [session EXCEPT
                     !.itineraries = PyList(<< >>),
                     !.selected_itinerary = None,
                     !.current_step = 0]
    /\ run' = RunOf("confirmation", TRUE, "")

\* "Plan Another Trip" (lines 481-487).
PlanAnotherTrip ==
    /\ Ready("confirmation")
    /\ UNCHANGED <<call, mcp_tools, page, ledger>>
    /\ tables' = ScriptTop(tables)
    /\ session' = [session EXCEPT
                     !.itineraries = PyList(<< >>),
                     !.selected_itinerary = None,
                     !.booking_results = EmptyDict,
                     !.current_step = 0]
    /\ run' = RunOf("confirmation", TRUE, "")

(***************************************************************************)
(* Sample values.                                                          *)
(***************************************************************************)
Date(y, m, d) == [year |-> y, month |-> m, day |-> d, hour |-> 0, minute |-> 0]

\* One draw of the forecast loop for a condition: the top of its band.
WeatherOf(condition) ==
    [condition |-> condition,
     high |-> temperatures[condition][2],
     low |-> temperatures[condition][2] - 10]

SlotOf(activity_type, name, cost) ==
    [activity_type |-> activity_type, name |-> name, cost |-> cost]

\* An environment in which nothing fails and every draw has one outcome.
QuietEnv ==
    [weather |-> {WeatherOf("Sunny")},
     rolls |-> {FALSE},
     picks |-> {2},
     focus |-> {"Cultural"},
     flight_price |-> {400},
     hotel_price_per_night |-> {190},
     ulp |-> {0},
     airline |-> {"Delta"},
     hotel |-> {"Marriott"},
     duration_h |-> {2},
     duration_m |-> {30},
     rating |-> {45},
     slot |-> {SlotOf("Cultural", 1, 20)},
     responses |-> {<<"x">>},
     oracle_fails |-> {FALSE},
     tools_fail |-> {FALSE},
     connect_fails |-> {FALSE},
     agent_fails |-> {FALSE},
     arun_fails |-> {FALSE},
     fallback_fails |-> {FALSE}]

(***************************************************************************)
(* Spec: one request through generate_itineraries, every step of which may *)
(* fail, with a handful of agent responses.                                *)
(***************************************************************************)
PipelineResponses ==
    { << >>,
      <<"x">>,
      <<"1">>,
      <<"{}">>,
      <<"I">>,
      <<"[", "]">>,
      <<"[", "{}", "]">>,
      <<"[", "I", "]">>,
      <<"[", "I", ",", "I", "]">>,
      <<"[", "J", "]">>,
      <<"x", "[", "I", "]", "x">>,
      <<"[", "I", "]", "x", "[", "1", "]">> }

PipelineEnv ==
    [QuietEnv EXCEPT
        !.weather = {WeatherOf("Sunny"), WeatherOf("Rainy")},
        !.focus = {"Adventure", "Cultural"},
        !.responses = PipelineResponses,
        !.oracle_fails = BOOLEAN,
        !.tools_fail = BOOLEAN,
        !.connect_fails = BOOLEAN,
        !.agent_fails = BOOLEAN,
        !.arun_fails = BOOLEAN,
        !.fallback_fails = BOOLEAN]

PipelineArgs ==
    [destination : {<<"Paris">>},
     num_days : 1..MaxDays,
     preferences : {"museums Cultural"},
     budget : {1500},
     num_itineraries : 1..MaxItineraries,
     start_date : {Date(2025, 6, 30)}]

Init ==
    /\ \E a \in PipelineArgs :
         call = [r \in Requests |-> IF r = 1 THEN NewCall(a) ELSE NoCall]
    /\ mcp_tools = None
    /\ page = NoPage
    /\ session = NoSession
    /\ tables = NoTables
    /\ run = NoRun
    /\ ledger = {}

Next ==
    \/ Start(1, PipelineEnv)
    \/ ConnectDone(1, PipelineEnv)
    \/ ArunDone(1, PipelineEnv)

Spec == Init /\ [][Next]_vars

(***************************************************************************)
(* SpecFit: the synthesizer called with many budgets, trip lengths and     *)
(* drawn prices, for the budget fitting of lines 311-320.                  *)
(***************************************************************************)
FitEnv ==
    [QuietEnv EXCEPT
        !.flight_price = {200 + (25 * k) : k \in (-1)..17},
        !.hotel_price_per_night = {80 + (20 * k) : k \in (-1)..12},
        !.ulp = {0, 1}]

FitArgs ==
    [destination : {<<"Paris">>},
     num_days : {1, 2, 3, 7, 30},
     preferences : {"museums Cultural"},
     budget : {1, 10, 100, 190, 200, 500, 1000, 1500, 2000, 5000, 10000},
     num_itineraries : {1},
     start_date : {Date(2025, 6, 30)}]

InitFit ==
    /\ \E a \in FitArgs :
         call = [r \in Requests |-> IF r = 1 THEN NewCall(a) ELSE NoCall]
    /\ mcp_tools = None
    /\ page = NoPage
    /\ session = NoSession
    /\ tables = NoTables
    /\ run = NoRun
    /\ ledger = {}

NextFit == Synthesize(1, FitEnv)

SpecFit == InitFit /\ [][NextFit]_vars

(***************************************************************************)
(* SpecPlan: the synthesizer called with every forecast condition, every   *)
(* focus and start dates at the end of a month, for the day plans of       *)
(* lines 354-382.                                                          *)
(***************************************************************************)
PlanEnv ==
    [QuietEnv EXCEPT
        !.weather = {WeatherOf(weather_conditions[k]) : k \in 1..Len(weather_conditions)},
        !.focus = {focuses[k] : k \in 1..Len(focuses)},
        !.slot = {SlotOf("Relaxation", 1, 20), SlotOf("Adventure", 2, 100),
                  SlotOf("Food", 3, 150)}]

PlanArgs ==
    [destination : {<<"Paris">>},
     num_days : 1..MaxDays,
     preferences : {"museums Cultural"},
     budget : {1500},
     num_itineraries : {1},
     start_date : {Date(2025, 6, 30), Date(2024, 2, 28), Date(2025, 12, 31)}]

InitPlan ==
    /\ \E a \in PlanArgs :
         call = [r \in Requests |-> IF r = 1 THEN NewCall(a) ELSE NoCall]
    /\ mcp_tools = None
    /\ page = NoPage
    /\ session = NoSession
    /\ tables = NoTables
    /\ run = NoRun
    /\ ledger = {}

NextPlan == Synthesize(1, PlanEnv)

SpecPlan == InitPlan /\ [][NextPlan]_vars

(***************************************************************************)
(* SpecEntry: the two ways into generate_itineraries, the planning form of *)
(* the page and a call of the method itself, with arguments of every kind. *)
(***************************************************************************)
EntryForm ==
    [destination |-> {<< >>, <<"Paris">>},
     start_date |-> {Date(2025, 6, 30)},
     num_days |-> {0, 1, 2, 31},
     budget |-> {0, 450, 500, 2000},
     preferences |-> {"museums Cultural"}]

EntryCallers ==
    [destination : {<< >>, <<"Paris">>},
     num_days : {0, 1},
     preferences : {"museums Cultural"},
     budget : {0, 1500},
     num_itineraries : {1},
     start_date : {Date(2025, 6, 30)}]

EntryEnv ==
    [QuietEnv EXCEPT
        !.focus = {"Adventure", "Cultural"},
        !.responses = {<<"x">>, <<"[", "I", "]">>},
        !.connect_fails = BOOLEAN]

InitEntry ==
    /\ call = [r \in Requests |-> NoCall]
    /\ mcp_tools = None
    /\ page = NoPage
    /\ session = [NoSession EXCEPT
                    !.user = PyDict([email |-> "ann@example.com",
                                     authenticated |-> TRUE])]
    /\ tables = NoTables
    /\ run = NoRun
    /\ ledger = {}

NextEntry ==
    \/ SubmitForm(1, EntryForm)
    \/ GenerateCall(1, EntryCallers)
    \/ Start(1, EntryEnv)
    \/ ConnectDone(1, EntryEnv)
    \/ ArunDone(1, EntryEnv)

SpecEntry == InitEntry /\ [][NextEntry]_vars

(***************************************************************************)
(* SpecIcal: a request whose result, of the synthesizer or of the agent,   *)
(* is exported as a calendar.                                              *)
(***************************************************************************)
IcalEnv ==
    [QuietEnv EXCEPT
        !.weather = {WeatherOf("Sunny"), WeatherOf("Stormy")},
        !.focus = {"Adventure", "Cultural"},
        !.responses = { <<"[", "I", "]">>, <<"[", "J", "]">>,
                        <<"[", "I", ",", "J", "]">>, <<"[", "{}", "]">> },
        !.connect_fails = BOOLEAN]

IcalArgs ==
    [destination : {<<"Paris">>},
     num_days : 1..MaxDays,
     preferences : {"museums Cultural"},
     budget : {1500},
     num_itineraries : {1},
     start_date : {Date(2025, 6, 1), Date(2024, 2, 29), Date(2025, 12, 31)}]

InitIcal ==
    /\ \E a \in IcalArgs :
         call = [r \in Requests |-> IF r = 1 THEN NewCall(a) ELSE NoCall]
    /\ mcp_tools = None
    /\ page = NoPage
    /\ session = NoSession
    /\ tables = NoTables
    /\ run = NoRun
    /\ ledger = {}

NextIcal ==
    \/ Start(1, IcalEnv)
    \/ ConnectDone(1, IcalEnv)
    \/ ArunDone(1, IcalEnv)
    \/ ExportIcal(1)

SpecIcal == InitIcal /\ [][NextIcal]_vars

(***************************************************************************)
(* SpecParse: one request whose agent answers any text of at most          *)
(* MaxTextLen tokens, for the parsing of lines 260-271.                    *)
(***************************************************************************)
SeqsUpTo(S, n) == UNION {[1..k -> S] : k \in 0..n}

ParseEnv == [QuietEnv EXCEPT !.responses = SeqsUpTo(Tokens, MaxTextLen)]

ParseArgs ==
    [destination : {<<"Paris">>},
     num_days : {1},
     preferences : {"museums Cultural"},
     budget : {1500},
     num_itineraries : {1},
     start_date : {Date(2025, 6, 30)}]

InitParse ==
    /\ \E a \in ParseArgs :
         call = [r \in Requests |-> IF r = 1 THEN NewCall(a) ELSE NoCall]
    /\ mcp_tools = None
    /\ page = NoPage
    /\ session = NoSession
    /\ tables = NoTables
    /\ run = NoRun
    /\ ledger = {}

NextParse ==
    \/ Start(1, ParseEnv)
    \/ ConnectDone(1, ParseEnv)
    \/ ArunDone(1, ParseEnv)

SpecParse == InitParse /\ [][NextParse]_vars

(***************************************************************************)
(* SpecOracle: the oracle as the synthesizer calls it (lines 285-286),     *)
(* with draws over every condition and band, destinations inside and       *)
(* outside the disaster-prone regions and start dates at the end of a      *)
(* month.                                                                  *)
(***************************************************************************)
WeatherDraw(condition, high, low) ==
    [condition |-> condition, high |-> high, low |-> low]

OracleEnv ==
    [QuietEnv EXCEPT
        !.weather = {WeatherOf(weather_conditions[k]) : k \in 1..Len(weather_conditions)}
                    \cup {WeatherDraw("Sunny", 75, 85),
                          WeatherDraw("Stormy", 55, 40),
                          WeatherDraw("Sunny", 96, 80),
                          WeatherDraw("Rainy", 59, 50)},
        !.rolls = BOOLEAN,
        !.picks = 1..6]

OracleArgs ==
    [destination : {<<"Paris">>, <<"San Diego, ", "California">>},
     num_days : 1..MaxDays,
     preferences : {"museums Cultural"},
     budget : {1500},
     num_itineraries : {1},
     start_date : {Date(2025, 6, 30), Date(2024, 2, 28), Date(2025, 12, 31)}]

InitOracle ==
    /\ \E a \in OracleArgs :
         call = [r \in Requests |-> IF r = 1 THEN NewCall(a) ELSE NoCall]
    /\ mcp_tools = None
    /\ page = NoPage
    /\ session = NoSession
    /\ tables = NoTables
    /\ run = NoRun
    /\ ledger = {}

NextOracle == Synthesize(1, OracleEnv)

SpecOracle == InitOracle /\ [][NextOracle]_vars

(***************************************************************************)
(* SpecTwo: two requests on the same ItineraryGenerator, interleaved at    *)
(* their awaits (connect() at line 57, arun at line 258).                  *)
(***************************************************************************)
TwoEnv ==
    [QuietEnv EXCEPT
        !.responses = {<<"x">>, <<"[", "I", "]">>},
        !.connect_fails = BOOLEAN]

TwoArgs ==
    [destination : {<<"Paris">>, <<"Rome">>},
     num_days : {1},
     preferences : {"museums Cultural"},
     budget : {1500},
     num_itineraries : {1},
     start_date : {Date(2025, 6, 30)}]

InitTwo ==
    /\ \E a \in TwoArgs, b \in TwoArgs :
         call = [r \in Requests |-> IF r = 1 THEN NewCall(a) ELSE NewCall(b)]
    /\ mcp_tools = None
    /\ page = NoPage
    /\ session = NoSession
    /\ tables = NoTables
    /\ run = NoRun
    /\ ledger = {}

NextTwo ==
    \E r \in Requests :
        \/ Start(r, TwoEnv)
        \/ ConnectDone(r, TwoEnv)
        \/ ArunDone(r, TwoEnv)

SpecTwo == InitTwo /\ [][NextTwo]_vars

(***************************************************************************)
(* SpecWizard: two users on the pages of src/main.py, from the login page  *)
(* through the planner, whose itineraries come from the agent or from the  *)
(* synthesizer, to the booking steps, the payment and the confirmation.    *)
(***************************************************************************)
WizardEnv ==
    [QuietEnv EXCEPT
        !.responses = {<<"[", "{}", "]">>, <<"[", "I", "]">>},
        !.connect_fails = BOOLEAN]

WizardForm ==
    [destination |-> {<< >>, <<"Paris">>},
     start_date |-> {Date(2025, 6, 30)},
     num_days |-> {1},
     budget |-> {2000},
     preferences |-> {"museums Cultural"}]

WizardInputs ==
    [email |-> {"ann@example.com", "bob@example.com"},
     password |-> {"secret"},
     typed |-> {"secret", "wrong"},
     booked |-> BOOLEAN,
     booking_id |-> {10000},
     filled |-> BOOLEAN,
     paid |-> BOOLEAN,
     transaction_id |-> {100000},
     timestamp |-> {1700000000}]

InitWizard ==
    /\ call = [r \in Requests |-> NoCall]
    /\ mcp_tools = None
    /\ page = NoPage
    /\ session = NoSession
    /\ tables = NoTables
    /\ run = NoRun
    /\ ledger = {}

NextWizard ==
    \/ Register(WizardInputs)
    \/ Login(WizardInputs)
    \/ Logout
    \/ SubmitForm(1, WizardForm)
    \/ Start(1, WizardEnv)
    \/ ConnectDone(1, WizardEnv)
    \/ ArunDone(1, WizardEnv)
    \/ FormDone(1)
    \/ SelectItinerary
    \/ Rerun
    \/ BookFlight(WizardInputs)
    \/ SkipFlight
    \/ BookHotel(WizardInputs)
    \/ SkipHotel
    \/ BookActivity(WizardInputs)
    \/ ContinueToPayment
    \/ ProcessPayment(WizardInputs)
    \/ PlanAnotherTrip

SpecWizard == InitWizard /\ [][NextWizard]_vars

\* SpecWizardFair: the same pages with a user who keeps acting: a run that
\* st.rerun() asked for takes place, and a user who can act does.
SpecWizardFair == SpecWizard /\ WF_vars(NextWizard)

(***************************************************************************)
(* Properties.                                                             *)
(***************************************************************************)
\* The request r has ended.
Done(r) == call[r].pc = "done"

\* The request r returned what the synthesizer built.
ReturnedFallback(r) ==
    /\ Done(r)
    /\ call[r].outcome = "returned"
    /\ call[r].source = "fallback"

\* x is a dict with exactly the fields of the itinerary schema.
HasItineraryFields(x) == x.kind = "dict" /\ DOMAIN x.val = ItineraryFields

\* v is a list of n dicts that carry every field of the schema.
IsItineraryList(v, n) ==
    /\ v.kind = "list"
    /\ Len(v.val) = n
    /\ \A i \in 1..Len(v.val) : HasItineraryFields(v.val[i])

\* C1: every itinerary the fallback synthesizer builds has
\* total_cost <= 0.9 * budget, whatever prices were drawn and after the
\* truncation of the scaled prices.
C1_BudgetInvariant ==
    \A r \in Requests :
        ReturnedFallback(r) =>
            \A i \in 1..Len(call[r].result.val) :
                10 * call[r].result.val[i].val.total_cost
                    <= 9 * call[r].args.budget

\* C1, its case: an itinerary whose prices were scaled down (the flight price
\* is below every price that can be drawn) and whose total, after truncation,
\* is strictly below 0.9 * budget.
C1_Witness ==
    \E r \in Requests :
        /\ ReturnedFallback(r)
        /\ call[r].args.num_days = 30
        /\ \E i \in 1..Len(call[r].result.val) :
              LET it == call[r].result.val[i].val
              IN  /\ it.flight_options[1].price < 200
                  /\ it.flight_options[1].price > 0
                  /\ 10 * it.total_cost < 9 * call[r].args.budget

\* C2: generate_itineraries never fails outward. When a step inside it
\* failed, the call returns the synthesizer's result; the call raises exactly
\* when the last call of the synthesizer raised.
C2_NeverFailsOutward ==
    \A r \in Requests :
        Done(r) =>
            /\ (call[r].outcome = "raised") <=> (call[r].last_fallback = "raised")
            /\ (call[r].failed # {} /\ call[r].outcome = "returned") =>
                   /\ call[r].source = "fallback"
                   /\ IsItineraryList(call[r].result, call[r].args.num_itineraries)

\* C2, its case: the agent call failed and the request returned the
\* synthesizer's result.
C2_Witness ==
    \E r \in Requests :
        /\ ReturnedFallback(r)
        /\ call[r].failed = {"arun"}
        /\ call[r].arun_calls = 1

\* C3: when connect_mcp_servers returned False, generate_itineraries returns
\* exactly num_itineraries itineraries, each with every field of the schema
\* (unless the synthesizer itself raised).
C3_FallbackWhenUnavailable ==
    \A r \in Requests :
        (Done(r) /\ call[r].connected = "false") =>
            \/ call[r].last_fallback = "raised"
            \/ /\ call[r].outcome = "returned"
               /\ IsItineraryList(call[r].result, call[r].args.num_itineraries)

\* C3, its case: the tools were unavailable and two itineraries were asked for.
C3_Witness ==
    \E r \in Requests :
        /\ ReturnedFallback(r)
        /\ call[r].connected = "false"
        /\ call[r].args.num_itineraries = MaxItineraries
        /\ call[r].args.num_days = MaxDays
        /\ Len(call[r].result.val) = MaxItineraries

\* C4: when the agent's response holds no parseable JSON ("no json here"),
\* generate_itineraries returns num_itineraries itineraries of the
\* synthesizer: it neither raises (unless the synthesizer does) nor returns
\* an empty result.
C4_MalformedJsonTolerance ==
    \A r \in Requests :
        (Done(r) /\ call[r].has_response /\ call[r].response = <<"x">>) =>
            \/ call[r].last_fallback = "raised"
            \/ /\ call[r].outcome = "returned"
               /\ call[r].source = "fallback"
               /\ "parse" \in call[r].failed
               /\ call[r].args.num_itineraries > 0
               /\ IsItineraryList(call[r].result, call[r].args.num_itineraries)

\* C4, its case: the agent answered "no json here" and the request returned.
C4_Witness ==
    \E r \in Requests :
        /\ ReturnedFallback(r)
        /\ call[r].has_response
        /\ call[r].response = <<"x">>
        /\ call[r].fallback_calls = 1

\* The labels "Day 1" .. "Day n", in order.
DayLabels(n) == [d \in 1..n |-> DayLabel(d)]

\* x is a dict whose daily_itinerary has exactly the keys "Day 1" .. "Day n",
\* in that order.
CoversDays(x, n) ==
    /\ x.kind = "dict"
    /\ "daily_itinerary" \in DOMAIN x.val
    /\ DictKeys(x.val.daily_itinerary) = DayLabels(n)

\* C5: every itinerary generate_itineraries returns, from the synthesizer or
\* from the agent, has a daily_itinerary with exactly the keys
\* "Day 1" .. "Day num_days", in that order.
C5_DayCoverage ==
    \A r \in Requests :
        (Done(r) /\ call[r].outcome = "returned") =>
            /\ call[r].result.kind = "list"
            /\ \A i \in 1..Len(call[r].result.val) :
                  CoversDays(call[r].result.val[i], call[r].args.num_days)

\* start_date + n days.
RECURSIVE AddDays(_, _)
AddDays(dt, n) == IF n = 0 THEN dt ELSE AddDays(AddDay(dt), n - 1)

\* The forecast condition the synthesizer of request r used for a date, or
\* "(no forecast)" when its forecast has no entry for that date.
ForecastCondition(r, date) ==
    DictGet(call[r].fallback_forecast, Strftime(date),
            [condition |-> "(no forecast)"]).condition

\* C6, for one activity a of the day labelled "Day n" of request r.
AlternativeConsistent(r, n, a) ==
    LET condition == ForecastCondition(r, AddDays(call[r].args.start_date, n - 1))
        wanted == /\ a.name \in DOMAIN indoor_alternatives
                  /\ condition \in {"Rainy", "Stormy"}
    IN  /\ condition # "(no forecast)"
        /\ (a.weather_alternative # "") <=> wanted
        /\ wanted => a.weather_alternative = indoor_alternatives[a.name]

\* C6: in every fallback itinerary, an activity's weather_alternative is
\* non-empty exactly when its name is a key of indoor_alternatives and the
\* forecast condition of its calendar day (start_date + (N-1) days for
\* "Day N") is Rainy or Stormy; it is then the mapped alternative.
C6_WeatherAlternative ==
    \A r \in Requests :
        ReturnedFallback(r) =>
            \A i \in 1..Len(call[r].result.val) :
                LET daily == call[r].result.val[i].val.daily_itinerary
                IN  \A k \in 1..Len(daily) :
                        \E n \in 1..call[r].args.num_days :
                            /\ daily[k].key = DayLabel(n)
                            /\ \A j \in 1..Len(daily[k].value) :
                                  AlternativeConsistent(r, n, daily[k].value[j])

\* C6, its case: a two-day trip over the end of a month whose second day is
\* stormy and whose first is not; on day 2 one activity got its mapped
\* alternative and the other, which has none in the mapping, got none, and on
\* day 1 a mapped activity got none.
C6_Witness ==
    \E r \in Requests :
        /\ ReturnedFallback(r)
        /\ call[r].args.num_days = 2
        /\ ForecastCondition(r, call[r].args.start_date) = "Cloudy"
        /\ ForecastCondition(r, AddDay(call[r].args.start_date)) = "Stormy"
        /\ AddDay(call[r].args.start_date).day = 1
        /\ LET daily == call[r].result.val[1].val.daily_itinerary
           IN  /\ daily[1].value[1].name = "Beach Time"
               /\ daily[1].value[1].weather_alternative = ""
               /\ daily[2].value[1].name = "Beach Time"
               /\ daily[2].value[1].weather_alternative = "Spa day"
               /\ daily[2].value[2].name = "Spa Day"
               /\ daily[2].value[2].weather_alternative = ""

\* C7: a call with num_itineraries = N returns exactly N itineraries, whether
\* the agent's output was accepted or the synthesizer was used.
C7_ExactlyN ==
    \A r \in Requests :
        (Done(r) /\ call[r].outcome = "returned") =>
            /\ call[r].result.kind = "list"
            /\ Len(call[r].result.val) = call[r].args.num_itineraries

\* C8: generate_itineraries never surfaces a malformed itinerary: what it
\* returns after the agent answered is made of objects with every field of
\* the schema (agent output with missing fields is replaced by the
\* synthesizer's result).
C8_NoMalformedItinerary ==
    \A r \in Requests :
        (Done(r) /\ call[r].outcome = "returned" /\ call[r].has_response) =>
            \/ call[r].source = "fallback"
            \/ /\ call[r].result.kind = "list"
               /\ \A i \in 1..Len(call[r].result.val) :
                     HasItineraryFields(call[r].result.val[i])

\* C9: on the agent path the value returned is always a list: agent text that
\* does not parse as a JSON array leads to the synthesizer's result.
C9_AlwaysAList ==
    \A r \in Requests :
        (Done(r) /\ call[r].outcome = "returned" /\ call[r].source = "agent") =>
            call[r].result.kind = "list"

\* C10: when establishing the tool connections fails, connect_mcp_servers
\* reports False, no agent is built or called in that request, and the
\* request ends with the synthesizer's result (it raises only if the
\* synthesizer does).
C10_ConnectFailure ==
    \A r \in Requests :
        "connect" \in call[r].failed =>
            /\ Done(r)
            /\ call[r].connected = "false"
            /\ call[r].agent_tools = None
            /\ call[r].agents_built = 0
            /\ call[r].arun_calls = 0
            /\ ~call[r].has_response
            /\ call[r].fallback_calls >= 1
            /\ (call[r].outcome = "raised") <=> (call[r].last_fallback = "raised")
            /\ call[r].outcome = "returned" =>
                  /\ call[r].source = "fallback"
                  /\ IsItineraryList(call[r].result, call[r].args.num_itineraries)

\* C10, its case: connect() raised at line 57, after self.mcp_tools was
\* assigned, and the request returned the synthesizer's result.
C10_Witness ==
    \E r \in Requests :
        /\ ReturnedFallback(r)
        /\ call[r].failed = {"connect"}
        /\ mcp_tools.kind = "MultiMCPTools"
        /\ ~mcp_tools.val.connected

\* The arguments a are invalid: empty destination, or no days, or no budget.
InvalidParameters(a) ==
    \/ a.destination = << >>
    \/ a.num_days <= 0
    \/ a.budget <= 0

\* C11: a request with invalid parameters (empty destination, num_days <= 0
\* or budget <= 0) is rejected before generation begins: no step of
\* generate_itineraries runs for it, neither the oracle, the agent nor the
\* synthesizer, and no itinerary list is produced.
C11_InvalidRejected ==
    \A r \in Requests :
        (call[r].pc # "unused" /\ InvalidParameters(call[r].args)) =>
            /\ call[r].pc = "start"
            /\ call[r].arun_calls = 0
            /\ call[r].fallback_calls = 0
            /\ call[r].outcome # "returned"

\* C12: the total_cost of every itinerary generate_itineraries returns,
\* built by the synthesizer or provided by the agent, is never negative.
C12_TotalCostNotNegative ==
    \A r \in Requests :
        (Done(r) /\ call[r].outcome = "returned" /\ call[r].result.kind = "list") =>
            \A i \in 1..Len(call[r].result.val) :
                LET x == call[r].result.val[i]
                IN  (x.kind = "dict" /\ "total_cost" \in DOMAIN x.val) =>
                        x.val.total_cost >= 0

\* The N of the label "Day N".
LabelDay(key) == CHOOSE n \in 1..31 : DayLabel(n) = key

\* The number of activities listed before the k-th item of daily_itinerary.
RECURSIVE ActivitiesBefore(_, _)
ActivitiesBefore(daily, k) ==
    IF k <= 1 THEN 0
    ELSE ActivitiesBefore(daily, k - 1) + Len(daily[k - 1].value)

\* The itinerary that was exported, and its days.
Exported == call[page.selected[1]].result.val[page.selected[2]]

ExportedDays ==
    IF "daily_itinerary" \in DOMAIN Exported.val
    THEN Exported.val.daily_itinerary ELSE << >>

\* The hour and minute a time text such as "09:00" names.
ClockOf(time) == <<strptime(time).hour, strptime(time).minute>>

\* C13: generate_ical emits exactly one event per activity of the itinerary,
\* and an activity listed under "Day N" gives an event that starts on
\* start_date + (N - 1) days at the activity's start_time and ends on the
\* same date at its end_time.
C13_IcalEvents ==
    (page.selected # << >> /\ Exported.kind = "dict") =>
        LET start_date == call[page.selected[1]].args.start_date
            daily == ExportedDays
            events == page.ical.val
        IN  /\ page.ical.kind = "ical"
            /\ Len(events) = ActivitiesBefore(daily, Len(daily) + 1)
            /\ \A k \in 1..Len(daily) : \A j \in 1..Len(daily[k].value) :
                 LET e == events[ActivitiesBefore(daily, k) + j]
                     a == daily[k].value[j]
                     date == AddDays(start_date, LabelDay(daily[k].key) - 1)
                 IN  /\ Strftime(e.dtstart) = Strftime(date)
                     /\ Strftime(e.dtend) = Strftime(date)
                     /\ <<e.dtstart.hour, e.dtstart.minute>> = ClockOf(a.start_time)
                     /\ <<e.dtend.hour, e.dtend.minute>> = ClockOf(a.end_time)

\* C14: in generate_ical the event's location is the activity's location, and
\* it is the destination whenever the activity's location is empty, an empty
\* string as well as an absent field.
C14_IcalLocation ==
    (page.selected # << >> /\ page.ical.kind = "ical") =>
        LET destination == call[page.selected[1]].args.destination
            daily == ExportedDays
            events == page.ical.val
        IN  \A k \in 1..Len(daily) : \A j \in 1..Len(daily[k].value) :
                LET e == events[ActivitiesBefore(daily, k) + j]
                    a == daily[k].value[j]
                IN  e.location =
                        IF "location" \notin DOMAIN a \/ a.location = << >>
                        THEN destination ELSE a.location

\* C15: a failure of the synthesizer is fatal and propagated: when
\* _generate_fallback_itineraries raises during a request, the request raises
\* to its caller, and the synthesizer is not run again for it.
C15_FallbackFailureFatal ==
    \A r \in Requests :
        (Done(r) /\ call[r].fallback_raised >= 1) =>
            /\ call[r].outcome = "raised"
            /\ call[r].fallback_calls = 1

\* C16: within one request the agent is invoked at most once, and only after
\* the tools connected; after a failure of the agent or of the parse the
\* request goes to the synthesizer without another call of the agent.
C16_AgentAtMostOnce ==
    \A r \in Requests :
        /\ call[r].arun_calls <= 1
        /\ call[r].arun_calls = 1 =>
              /\ call[r].connected = "true"
              /\ "connect" \notin call[r].failed
        /\ call[r].has_response => call[r].arun_calls = 1
        /\ (Done(r) /\ call[r].failed \cap {"arun", "parse"} # {}) =>
              /\ call[r].arun_calls = 1
              /\ call[r].fallback_calls >= 1
              /\ call[r].source # "agent"

\* A request whose one response could not be decoded ended with the
\* synthesizer's list.
C16_Witness ==
    /\ Done(1)
    /\ "parse" \in call[1].failed
    /\ call[1].arun_calls = 1
    /\ call[1].connected = "true"
    /\ call[1].source = "fallback"

\* The text of the time hh:00, two digits of hour.
SlotTime(d1, d2) == <<d1, d2, ":", "0", "0">>

\* C17: every day plan of the synthesizer has its first activity from "09:00"
\* to "12:00" and its second from "13:00" to "16:00", in two-digit HH:MM form.
C17_FallbackSlots ==
    \A r \in Requests :
        ReturnedFallback(r) =>
            \A i \in 1..Len(call[r].result.val) :
                LET daily == call[r].result.val[i].val.daily_itinerary
                IN  \A k \in 1..Len(daily) :
                        /\ Len(daily[k].value) = 2
                        /\ daily[k].value[1].start_time = SlotTime("0", "9")
                        /\ daily[k].value[1].end_time = SlotTime("1", "2")
                        /\ daily[k].value[2].start_time = SlotTime("1", "3")
                        /\ daily[k].value[2].end_time = SlotTime("1", "6")

\* C18: every itinerary of the synthesizer has exactly one flight option,
\* exactly one accommodation option and exactly 2 activities under each of
\* its num_days day labels, each activity with a cost in 20..100.
C18_FallbackShape ==
    \A r \in Requests :
        ReturnedFallback(r) =>
            \A i \in 1..Len(call[r].result.val) :
                LET x == call[r].result.val[i].val
                    n == call[r].args.num_days
                IN  /\ Len(x.flight_options) = 1
                    /\ Len(x.accommodation_options) = 1
                    /\ DictKeys(x.daily_itinerary) = DayLabels(n)
                    /\ \A k \in 1..n :
                         /\ Len(x.daily_itinerary[k].value) = 2
                         /\ \A j \in 1..2 :
                              x.daily_itinerary[k].value[j].cost \in 20..100

\* An itinerary of MaxDays days whose activities cost 20 and 100, the ends
\* of the range.
C18_Witness ==
    /\ ReturnedFallback(1)
    /\ call[1].args.num_days = MaxDays
    /\ LET daily == call[1].result.val[1].val.daily_itinerary
       IN  /\ Len(daily) = MaxDays
           /\ daily[1].value[1].cost = 20
           /\ daily[MaxDays].value[2].cost = 100

\* C19: in every itinerary of the synthesizer total_cost is the flight price
\* plus price_per_night * num_days, after the scaling too, total_price is
\* price_per_night * num_days, and no activity cost is part of the total;
\* when the drawn total is at most 0.9 * budget the drawn prices are kept,
\* the flight price in 200..600 and the nightly price in 80..300.
C19_CostComposition ==
    \A r \in Requests :
        ReturnedFallback(r) =>
            \A i \in 1..Len(call[r].result.val) :
                LET x == call[r].result.val[i].val
                    n == call[r].args.num_days
                    drawn == call[r].fallback_prices[i]
                    flight == x.flight_options[1]
                    hotel == x.accommodation_options[1]
                IN  /\ x.total_cost = flight.price + (hotel.price_per_night * n)
                    /\ hotel.total_price = hotel.price_per_night * n
                    /\ (10 * (drawn.flight_price + (drawn.hotel_price_per_night * n))
                            <= 9 * call[r].args.budget) =>
                          /\ flight.price = drawn.flight_price
                          /\ hotel.price_per_night = drawn.hotel_price_per_night
                          /\ flight.price \in 200..600
                          /\ hotel.price_per_night \in 80..300

\* An itinerary of several days whose prices were scaled down, and whose
\* activities cost something.
C19_Witness ==
    /\ ReturnedFallback(1)
    /\ call[1].args.num_days >= 2
    /\ LET x == call[1].result.val[1].val
           drawn == call[1].fallback_prices[1]
       IN  /\ x.flight_options[1].price < drawn.flight_price
           /\ x.accommodation_options[1].price_per_night < drawn.hotel_price_per_night
           /\ x.accommodation_options[1].price_per_night > 0
           /\ x.daily_itinerary[1].value[1].cost > 0
           /\ x.total_cost =
                x.flight_options[1].price
                + (x.accommodation_options[1].price_per_night * call[1].args.num_days)

\* The tokens of text t that hold a '[', and those that hold a ']'.
OpenAt(t) == {i \in 1..Len(t) : t[i] = "[" \/ t[i] \in ItineraryTokens}

CloseAt(t) == {j \in 1..Len(t) : t[j] = "]" \/ t[j] \in ItineraryTokens}

Least(S) == CHOOSE i \in S : \A k \in S : i <= k

Greatest(S) == CHOOSE j \in S : \A k \in S : k <= j

\* Text t has a '[' with a ']' somewhere after it.
HasSpan(t) ==
    /\ OpenAt(t) # {}
    /\ CloseAt(t) # {}
    /\ \/ Least(OpenAt(t)) < Greatest(CloseAt(t))
       \/ /\ Least(OpenAt(t)) = Greatest(CloseAt(t))
          /\ t[Least(OpenAt(t))] \in ItineraryTokens

\* The text from the first '[' of t to its last ']' is a JSON document: it
\* begins and ends at brackets of its own and json.loads accepts it.
SpanIsJson(t) ==
    /\ t[Least(OpenAt(t))] = "["
    /\ t[Greatest(CloseAt(t))] = "]"
    /\ json_loads(SubSeq(t, Least(OpenAt(t)), Greatest(CloseAt(t)))).ok

\* Some stretch of t is a JSON array.
HoldsArray(t) ==
    \E i \in 1..Len(t) : \E j \in i..Len(t) :
        /\ json_loads(SubSeq(t, i, j)).ok
        /\ json_loads(SubSeq(t, i, j)).val.kind = "list"

\* C20: the parse takes the span from the first '[' to the last ']' of the
\* agent's text and decodes exactly that span; the whole text is decoded only
\* when it has no such span; when the span cannot be decoded nothing else is
\* tried and the synthesizer is used, even if the text holds a JSON array.
C20_GreedySpan ==
    \A r \in Requests :
        (Done(r) /\ call[r].has_response) =>
            LET t == call[r].response
                fromAgent == call[r].outcome = "returned" /\ call[r].source = "agent"
            IN  IF HasSpan(t)
                THEN IF SpanIsJson(t)
                     THEN /\ fromAgent
                          /\ call[r].result =
                               json_loads(SubSeq(t, Least(OpenAt(t)),
                                                 Greatest(CloseAt(t)))).val
                     ELSE /\ ~fromAgent
                          /\ "parse" \in call[r].failed
                          /\ call[r].fallback_calls >= 1
                ELSE IF json_loads(t).ok
                     THEN fromAgent /\ call[r].result = json_loads(t).val
                     ELSE ~fromAgent /\ "parse" \in call[r].failed

\* A text that holds a JSON array inside a span that is no JSON ("[]]"): the
\* request was served by the synthesizer.
C20_Witness ==
    /\ Done(1)
    /\ call[1].has_response
    /\ HasSpan(call[1].response)
    /\ ~SpanIsJson(call[1].response)
    /\ HoldsArray(call[1].response)
    /\ call[1].source = "fallback"

\* Lines 149-151 ran for request r: it went on to the connection.
OracleRan(r) == call[r].pc \in {"connect", "arun"} \/ call[r].connected # "unset"

\* The forecasts _get_weather_forecast returned to request r: the one of
\* line 149 and the one of line 285.
Forecasts(r) ==
    (IF OracleRan(r)
     THEN {call[r].weather_forecast} ELSE {})
    \cup
    (IF call[r].last_fallback = "returned" THEN {call[r].fallback_forecast} ELSE {})

\* The lists _check_natural_disasters returned to request r (lines 150, 286).
Alerts(r) ==
    (IF OracleRan(r)
     THEN {call[r].disaster_alerts} ELSE {})
    \cup
    (IF call[r].last_fallback = "returned" THEN {call[r].fallback_alerts} ELSE {})

ConditionSet == {"Sunny", "Partly Cloudy", "Cloudy", "Rainy", "Stormy"}

\* C21: _get_weather_forecast returns exactly num_days forecasts, keyed by
\* the dates start_date, start_date + 1, .., start_date + num_days - 1, each
\* with one of the five conditions and a high inside that condition's band.
C21_ForecastShape ==
    \A r \in Requests : \A f \in Forecasts(r) :
        LET n == call[r].args.num_days
        IN  /\ Len(f) = n
            /\ \A i \in 1..n :
                 /\ f[i].key = Strftime(AddDays(call[r].args.start_date, i - 1))
                 /\ f[i].value.condition \in ConditionSet
                 /\ f[i].value.high >= temperatures[f[i].value.condition][1]
                 /\ f[i].value.high <= temperatures[f[i].value.condition][2]

\* A forecast of MaxDays days that runs over the end of February 2024.
C21_Witness ==
    /\ call[1].last_fallback = "returned"
    /\ call[1].args.num_days = MaxDays
    /\ call[1].args.start_date = Date(2024, 2, 28)
    /\ Len(call[1].fallback_forecast) = MaxDays
    /\ call[1].fallback_forecast[2].key = <<2024, 2, 29>>
    /\ call[1].fallback_forecast[2].value.condition = "Stormy"

\* The destination contains one of the disaster-prone markers.
IsProne(destination) ==
    \E i \in 1..Len(destination) :
        destination[i] \in {"Japan", "Indonesia", "Philippines", "California",
                            "Florida"}

BaselineAlert == "No significant natural disasters reported"

\* C22: _check_natural_disasters returns a list of exactly one alert, the
\* baseline alert for a destination with no disaster-prone marker and either
\* the baseline or one other alert of the table for a destination with one;
\* safety_recommendations of every synthesizer itinerary is the join of the
\* list the synthesizer got.
C22_OneAlert ==
    \A r \in Requests :
        /\ \A al \in Alerts(r) :
             /\ Len(al) = 1
             /\ \E k \in 1..Len(disasters) : al[1] = disasters[k]
             /\ ~IsProne(call[r].args.destination) => al[1] = BaselineAlert
        /\ ReturnedFallback(r) =>
             \A i \in 1..Len(call[r].result.val) :
                 call[r].result.val[i].val.safety_recommendations
                     = <<call[r].fallback_alerts[1]>>

\* A destination in California that got an alert other than the baseline,
\* which is the safety_recommendations of the itinerary.
C22_Witness ==
    /\ ReturnedFallback(1)
    /\ IsProne(call[1].args.destination)
    /\ Len(call[1].fallback_alerts) = 1
    /\ call[1].fallback_alerts[1] # BaselineAlert
    /\ call[1].result.val[1].val.safety_recommendations
           = <<"Flood watch in effect for low-lying areas">>

\* C25: in every forecast of _get_weather_forecast the low temperature of a
\* day is not above its high temperature.
C25_LowNotAboveHigh ==
    \A r \in Requests : \A f \in Forecasts(r) :
        \A i \in 1..Len(f) : f[i].value.low <= f[i].value.high

\* C23: within one request the oracle is consulted once, and the forecast and
\* the alerts the synthesizer uses are the ones computed at the start of the
\* request, not a second draw.
C23_OracleOnce ==
    \A r \in Requests :
        (OracleRan(r) /\ call[r].last_fallback = "returned") =>
            /\ call[r].fallback_forecast = call[r].weather_forecast
            /\ call[r].fallback_alerts = call[r].disaster_alerts

\* C24: two requests that overlap on the same ItineraryGenerator share no
\* mutable state: the tool handle a request hands to its agent is the one
\* this request built and connected.
C24_OwnHandle ==
    \A r \in Requests :
        call[r].agent_tools.kind = "MultiMCPTools" =>
            /\ call[r].agent_tools.val.owner = r
            /\ call[r].agent_tools.val.connected

\* The wizard's step and what the last run did.
Step == session.current_step

\* C26: once an itinerary is selected, current_step only advances one step
\* at a time, 1 to 2 to 3 to 4 to 5: no run of the script lowers it or skips
\* a step, except "Plan Another Trip" on the confirmation, which resets it
\* to 0; a failed flight or hotel booking leaves it unchanged.
C26_StepsInOrder ==
    [][Step >= 1 =>
         /\ \/ Step' = Step
            \/ Step' = Step + 1 /\ Step' <= 5
            \/ Step = 5 /\ Step' = 0 /\ run'.section = "confirmation"
         /\ run'.message = "Booking failed" => Step' = Step]_vars

\* A step wrote a booking of a complete package to the user's history, or
\* changed the preferences of a user.
HistoryWritten ==
    /\ tables'.bookings # tables.bookings
    /\ \E i \in 1..Len(tables'.bookings) :
         tables'.bookings[i].booking_type = "complete_package"

PreferencesWritten ==
    \E i \in 1..Len(tables.users) :
      tables'.users[i].preferences # tables.users[i].preferences

\* A step in which process_payment returned success for the total cost of
\* the selected itinerary, and recorded the payment.
Paid ==
    /\ run'.payment = "success"
    /\ Len(tables'.payments) = Len(tables.payments) + 1
    /\ tables'.payments[Len(tables'.payments)].amount =
         ItineraryGet(session.selected_itinerary, "total_cost", 0)

\* C27: the confirmation step is entered, and add_booking_to_history and
\* update_user_preferences are called, only in a run in which
\* process_payment returned success for the selected itinerary's
\* total_cost; a declined payment leaves current_step at 4 and writes
\* nothing to the user's history or preferences.
C27_PaymentFirst ==
    [][/\ (Step' = 5 /\ Step # 5)
            \/ HistoryWritten \/ PreferencesWritten
            \/ run'.history_added \/ run'.preferences_updated
          => Paid
       /\ Ready("payment") /\ run'.payment = "declined"
          => /\ Step' = 4
             /\ ~HistoryWritten
             /\ ~PreferencesWritten
             /\ session'.user = session.user]_vars

\* The confirmation was entered by a payment that succeeded and was
\* recorded with the booking.
C27_Witness ==
    /\ Step = 5
    /\ run.payment = "success"
    /\ run.history_added
    /\ Len(tables.payments) = 1
    /\ Len(tables.bookings) = 1

\* The review screen of the booking page (src/main.py lines 228-261) is what
\* the script renders, or what its last run rendered.
ReviewShown == Section(session) = "review" \/ run.section = "review"

\* A logged-in user has an itinerary selected.
Selected ==
    /\ session.user.kind # "None"
    /\ session.selected_itinerary.kind # "None"

\* No run of the script renders the review screen: main() shows the planner
\* whenever current_step is 0 (lines 509-510), and selecting an itinerary
\* sets current_step to 1 (line 182).
C28_ReviewNeverShown == ~ReviewShown

\* C28: after a logged-in user has selected an itinerary, the user's actions
\* reach the review screen (booking_page with current_step = 0), where the
\* itinerary is shown and its exports are offered. Stated on the behaviours
\* of a user who keeps acting (SpecWizardFair); by C28_ReviewNeverShown no
\* behaviour at all reaches the screen.
C28_ReviewReached == Selected ~> ReviewShown

\* The bookings table holds a row of the email with the booking id, which
\* get_booking_history(email) then returns.
Recorded(email, booking_id) ==
    /\ \E i \in 1..Len(tables.bookings) :
         /\ tables.bookings[i].email = email
         /\ tables.bookings[i].booking_id = booking_id
    /\ Len(get_booking_history(tables, email)) > 0

\* C29: booking records persist: once book_flight, book_hotel, book_activity
\* or add_booking_to_history has written a record for an email, every later
\* get_booking_history(email) includes it, whatever runs in between, the
\* construction of a new BookingServices or UserManager included. Stated of
\* the record written last, which the claim covers with every other.
C29_BookingsPersist == \A b \in ledger : Recorded(b[1], b[2])

\* C30: in every state of the wizard current_step is one of 0..5;
\* current_step >= 1 implies that a user is logged in and that
\* selected_itinerary is set (is not None); current_step = 0 implies that
\* booking_results is empty.
C30_WizardState ==
    /\ Step \in 0..5
    /\ Step >= 1 => /\ session.user.kind # "None"
                    /\ session.selected_itinerary.kind # "None"
    /\ Step = 0 => Len(session.booking_results) = 0

\* "Plan Another Trip" took a user who had booked and paid back to the
\* planner.
C30_Witness ==
    /\ Step = 0
    /\ run.section = "confirmation"
    /\ Len(tables.payments) = 1
    /\ session.user.kind # "None"

====
